---- MODULE Spec2Model ----
(***************************************************************************)
(* Model of the Oculus Rift positional tracking core of OpenHMD:           *)
(*   - the tracker, its tracked devices and their pose delay slots         *)
(*     (rift-tracker.c);                                                   *)
(*   - the UVC isochronous frame assembler (sensor/uvc.c).                 *)
(*                                                                         *)
(* Every handler of the code is one action.  The tracker lock serialises   *)
(* the tracker entry points and the device lock serialises the per-device  *)
(* ones; handlers on different devices touch disjoint state, so a handler  *)
(* is modelled as one atomic step.                                         *)
(*                                                                         *)
(* 32 and 64 bit unsigned integers are kept at their width.  They do not   *)
(* fit TLC's integers, so a uint32_t is a tuple of two 16 bit limbs and a  *)
(* uint64_t a tuple of four, least significant limb first.                 *)
(***************************************************************************)
EXTENDS Integers, Sequences, FiniteSets, TLC

(***************************************************************************)
(* Bounds of the model                                                     *)
(***************************************************************************)
\* Size of the tracker's device table (RIFT_MAX_TRACKED_DEVICES in the
\* tracker's header), cut down to keep the state space small.
RIFT_MAX_TRACKED_DEVICES == 2
\* Devices added in one run of the specifications that follow the devices'
\* data (the lock specification fills the table).
MaxAddedDevices == 1
\* Size of a slot's pose report array, one report per sensor
\* (RIFT_MAX_SENSORS in the tracker's header), cut down likewise.
RIFT_MAX_SENSORS == 1
\* Number of exposure-info copies held by sensors for frames in flight.
MaxFrames == 2
\* IMU updates delivered to one device in one run.
MaxImuUpdates == 1
\* Cap on the number of frames claiming one slot at a time.
MaxUseCount == 2
\* Largest exposure counter value the HMD reports in a run.
MaxExposureCount == 1
\* Frames in the UVC stream's pool (min_frames at stream start).
MaxUvcFrames == 2
\* Bytes in one video frame (stride * height).
UvcFrameSize == 4
\* How far below 0 frame_collected is followed.
MaxUnderrun == 8
\* IMU updates delivered to one device in one run of the clock specification.
MaxClockUpdates == 3
\* Exposures handled in one run of the stale copies specification.
MaxExposures == 4
\* IMU updates and exposures in one run of the pose gate specification.
MaxPoseImuUpdates == 2
MaxPoseExposures == 2
\* Threads that call the tracker's handlers concurrently.
MaxLockThreads == 3
\* Isochronous transfers of the stream (num_transfers).
num_transfers == 2

\* Rounds of the resubmission loop of iso_transfer_cb.
SubmitAttempts == 5

\* Sensors the tracker opens in a run.
MaxSensorsOpened == 3

\* The CV1 sensor's frame.
RIFT_SENSOR_WIDTH == 1280
RIFT_SENSOR_HEIGHT == 960

(***************************************************************************)
(* Program constants                                                       *)
(***************************************************************************)
NUM_POSE_DELAY_SLOTS == 3
POSE_LOST_THRESHOLD == 500
POSE_LOST_ORIENT_THRESHOLD == 100
RIFT_MAX_PENDING_IMU_OBSERVATIONS == 1000

(***************************************************************************)
(* Fixed-width unsigned arithmetic on 16 bit limbs                         *)
(***************************************************************************)
W16 == 2^16

\* The uint32_t / uint64_t holding the small natural number n (n < 2^31).
U32(n) == << n % W16, n \div W16 >>
U64(n) == << n % W16, n \div W16, 0, 0 >>

\* 0xFFFFFF00
U32_FFFFFF00 == << 65280, 65535 >>

\* uint32_t to uint64_t conversion.
Widen(a) == << a[1], a[2], 0, 0 >>

\* (uint32_t)(a - b)
Sub32(a, b) ==
    LET d0 == a[1] - b[1]
        borrow == IF d0 < 0 THEN 1 ELSE 0
        d1 == a[2] - b[2] - borrow
    IN  << d0 % W16, d1 % W16 >>

\* a * k in unsigned 32 bit arithmetic: the product is truncated to 32 bits.
Mul32(a, k) ==
    LET p0 == a[1] * k
        p1 == a[2] * k + (p0 \div W16)
    IN  << p0 % W16, p1 % W16 >>

\* x + y in unsigned 64 bit arithmetic.
Add64(x, y) ==
    LET s1 == x[1] + y[1]
        s2 == x[2] + y[2] + (s1 \div W16)
        s3 == x[3] + y[3] + (s2 \div W16)
        s4 == x[4] + y[4] + (s3 \div W16)
    IN  << s1 % W16, s2 % W16, s3 % W16, s4 % W16 >>

\* x - y in unsigned 64 bit arithmetic.
Sub64(x, y) ==
    LET d1 == x[1] - y[1]
        d2 == x[2] - y[2] - (IF d1 < 0 THEN 1 ELSE 0)
        d3 == x[3] - y[3] - (IF d2 < 0 THEN 1 ELSE 0)
        d4 == x[4] - y[4] - (IF d3 < 0 THEN 1 ELSE 0)
    IN  << d1 % W16, d2 % W16, d3 % W16, d4 % W16 >>

\* x < y on uint64_t.
Lt64(x, y) ==
    \/ x[4] < y[4]
    \/ x[4] = y[4] /\ x[3] < y[3]
    \/ x[4] = y[4] /\ x[3] = y[3] /\ x[2] < y[2]
    \/ x[4] = y[4] /\ x[3] = y[3] /\ x[2] = y[2] /\ x[1] < y[1]

Le64(x, y) == x = y \/ Lt64(x, y)

Zero32 == << 0, 0 >>
Zero64 == << 0, 0, 0, 0 >>

(***************************************************************************)
(* State                                                                   *)
(***************************************************************************)
VARIABLES
    n_devices,          \* rift_tracker_ctx.n_devices
    devices,            \* rift_tracker_ctx.devices[]
    have_exposure_info, \* rift_tracker_ctx.have_exposure_info
    exposure_info,      \* rift_tracker_ctx.exposure_info
    frames,             \* the exposure-info copies sensors hold for their frames
                        \* (the fields the tracker reads back: n_devices, devices)
    imu_count,          \* IMU updates delivered to each device so far
    last                \* what the last handler run did outside the tracker: the
                        \* filter calls it made, whether it notified the sensors,
                        \* the delay slot messages it logged

tracker_vars == << n_devices, devices, have_exposure_info, exposure_info,
                   frames, imu_count, last >>

DeviceIds == 0 .. (RIFT_MAX_TRACKED_DEVICES - 1)
SlotIds == 0 .. (NUM_POSE_DELAY_SLOTS - 1)
FrameIds == 1 .. MaxFrames

\* struct rift_tracker_pose_delay_slot, zeroed by the tracker's allocation.
ZeroSlot ==
    [ slot_id |-> 0, valid |-> FALSE, use_count |-> 0, device_time_ns |-> Zero64,
      n_pose_reports |-> 0, n_used_reports |-> 0 ]

\* struct rift_tracked_device_priv, zeroed by the tracker's allocation.
\* Poses are external values: reported_pose is kept as the device time of the
\* filter estimate its position and its orientation were last taken from.
ZeroDevice ==
    [ delay_slot_index |-> 0,
      delay_slots |-> [ s \in SlotIds |-> ZeroSlot ],
      last_device_ts |-> Zero32,
      device_time_ns |-> Zero64,
      last_observed_orient_ts |-> Zero64,
      last_observed_pose_ts |-> Zero64,
      last_reported_pose |-> Zero64,
      reported_pose |-> [ pos |-> Zero64, orient |-> Zero64 ],
      num_pending_imu_observations |-> 0 ]

\* struct rift_tracked_device_exposure_info, zeroed.
ZeroDevInfo ==
    [ device_time_ns |-> Zero64, fusion_slot |-> 0, had_pose_lock |-> FALSE ]

\* struct rift_tracker_exposure_info, zeroed.
ZeroExposureInfo ==
    [ local_ts |-> 0, hmd_ts |-> 0, count |-> 0, led_pattern_phase |-> 0,
      n_devices |-> 0, devices |-> [ i \in DeviceIds |-> ZeroDevInfo ] ]

\* A sensor's by-value copy of the exposure info, cut to the fields the
\* tracker's hooks read and write: n_devices and the per-device entries.
InfoCopy(info) == [ n_devices |-> info.n_devices, devices |-> info.devices ]

\* One call into the Kalman filter (an external collaborator).
FilterCall(fn, d, slot) == [ fn |-> fn, dev |-> d, slot |-> slot ]

\* One message of the log: "Reclaimed delay slot" (LOGI) or "No free delay slot" (LOGW).
LogEntry(msg, d, slot) == [ msg |-> msg, dev |-> d, slot |-> slot ]

\* What a handler returns: the out-parameters of
\* rift_tracked_device_get_view_pose and the return value of
\* rift_tracked_device_get_latest_exposure_info_pose; not recorded for the
\* other handlers.
NoOut == [ fn |-> "none" ]
Returned(fn, d, ret) == [ fn |-> fn, dev |-> d, ret |-> ret ]

Ran(calls, notified, log) ==
    [ calls |-> calls, notified |-> notified, log |-> log, out |-> NoOut ]

\* rift_tracker_new: the tracker is allocated zeroed, with no device.
TrackerInit ==
    /\ n_devices = 0
    /\ devices = [ d \in DeviceIds |-> ZeroDevice ]
    /\ have_exposure_info = FALSE
    /\ exposure_info = ZeroExposureInfo
    /\ frames = [ f \in FrameIds |-> InfoCopy(ZeroExposureInfo) ]
    /\ imu_count = [ d \in DeviceIds |-> 0 ]
    /\ last = Ran(<< >>, FALSE, << >>)

(***************************************************************************)
(* rift_tracker_add_device                                                 *)
(***************************************************************************)
rift_tracker_add_device ==
    /\ n_devices < RIFT_MAX_TRACKED_DEVICES
    /\ LET d == n_devices
           dev == devices[d]
       IN  /\ devices' = [ devices EXCEPT ![d] =
                  [ dev EXCEPT
                      !.last_reported_pose = Zero64,
                      !.last_observed_orient_ts = Zero64,
                      !.last_observed_pose_ts = Zero64,
                      !.device_time_ns = Zero64,
                      !.delay_slots = [ s \in SlotIds |->
                          [ dev.delay_slots[s] EXCEPT !.slot_id = s, !.valid = FALSE ] ] ] ]
           /\ last' = Ran(<< FilterCall("init", d, -1) >>, FALSE, << >>)
    /\ n_devices' = n_devices + 1
    /\ UNCHANGED << have_exposure_info, exposure_info, frames, imu_count >>

(***************************************************************************)
(* rift_tracked_device_imu_update                                          *)
(***************************************************************************)
\* An interval taken as a signed 32 bit difference: a raw timestamp that
\* wrapped moves the clock backwards.
ImuDtNsSigned(last_device_ts, device_ts) ==
    IF Lt64(Widen(device_ts), Widen(last_device_ts))
    THEN Sub64(Zero64, Widen(Mul32(Sub32(last_device_ts, device_ts), 1000)))
    ELSE Widen(Mul32(Sub32(device_ts, last_device_ts), 1000))

\* Nanoseconds the device clock advances for the raw timestamp device_ts:
\* the product is computed in uint32_t and only then widened.
ImuDtNs(last_device_ts, device_ts) ==
    Widen(Mul32(Sub32(device_ts, last_device_ts), 1000))

\* The device's clock extension.
ImuDeviceTime(dev, device_ts) ==
    IF dev.device_time_ns = Zero64
    THEN Widen(Mul32(device_ts, 1000))
    ELSE Add64(dev.device_time_ns, ImuDtNs(dev.last_device_ts, device_ts))

\* rift_tracked_device_send_imu_debug: flushes the pending observations.
rift_tracked_device_send_imu_debug(dev) ==
    [ dev EXCEPT !.num_pending_imu_observations = 0 ]

\* An IMU update that flushes the pending observations only once the count
\* is past the capacity of the array.
ImuUpdateFlushesLate(d, device_ts) ==
    /\ d < n_devices
    /\ LET dev == devices[d]
           dev1 == [ dev EXCEPT
                       !.device_time_ns = ImuDeviceTime(dev, device_ts),
                       !.last_device_ts = device_ts,
                       !.num_pending_imu_observations = @ + 1 ]
           dev2 == IF dev1.num_pending_imu_observations
                        > RIFT_MAX_PENDING_IMU_OBSERVATIONS
                   THEN rift_tracked_device_send_imu_debug(dev1)
                   ELSE dev1
       IN  /\ devices' = [ devices EXCEPT ![d] = dev2 ]
           /\ last' = Ran(<< FilterCall("imu_update", d, -1) >>, FALSE, << >>)
    /\ UNCHANGED << n_devices, have_exposure_info, exposure_info, frames >>

\* What rift_tracked_device_imu_update does to the tracker.
ImuUpdate(d, device_ts) ==
    /\ d < n_devices
    /\ LET dev == devices[d]
           dev1 == [ dev EXCEPT
                       !.device_time_ns = ImuDeviceTime(dev, device_ts),
                       !.last_device_ts = device_ts,
                       !.num_pending_imu_observations = @ + 1 ]
           dev2 == IF dev1.num_pending_imu_observations
                        = RIFT_MAX_PENDING_IMU_OBSERVATIONS
                   THEN rift_tracked_device_send_imu_debug(dev1)
                   ELSE dev1
       IN  /\ devices' = [ devices EXCEPT ![d] = dev2 ]
           /\ last' = Ran(<< FilterCall("imu_update", d, -1) >>, FALSE, << >>)
    /\ UNCHANGED << n_devices, have_exposure_info, exposure_info, frames >>

\* The handler, with the number of updates delivered to the device counted.
rift_tracked_device_imu_update(d, device_ts) ==
    /\ ImuUpdate(d, device_ts)
    /\ imu_count' = [ imu_count EXCEPT ![d] = @ + 1 ]

(***************************************************************************)
(* Delay slot table                                                        *)
(***************************************************************************)
\* The scan of find_free_delay_slot from cursor idx, i slots already tried:
\* the slot found (-1 for NULL) and the cursor it leaves.
RECURSIVE FindFreeFrom(_, _, _)
FindFreeFrom(dev, idx, i) ==
    IF i = NUM_POSE_DELAY_SLOTS
    THEN [ slot |-> -1, index |-> idx ]
    ELSE IF dev.delay_slots[idx].use_count = 0
         THEN [ slot |-> idx, index |-> (idx + 1) % NUM_POSE_DELAY_SLOTS ]
         ELSE FindFreeFrom(dev, (idx + 1) % NUM_POSE_DELAY_SLOTS, i + 1)

\* A scan that always starts at slot 0 instead of the round-robin cursor.
find_free_delay_slot_from_zero(dev) == FindFreeFrom(dev, 0, 0)

find_free_delay_slot(dev) == FindFreeFrom(dev, dev.delay_slot_index, 0)

\* The scan of reclaim_delay_slot from slot i (-1 for NULL).
RECURSIVE ReclaimFrom(_, _)
ReclaimFrom(dev, i) ==
    IF i = NUM_POSE_DELAY_SLOTS
    THEN -1
    ELSE IF dev.delay_slots[i].valid /\ dev.delay_slots[i].n_used_reports > 0
         THEN i
         ELSE ReclaimFrom(dev, i + 1)

reclaim_delay_slot(dev) == ReclaimFrom(dev, 0)

\* A match that does not compare the device times.
get_matching_delay_slot_ignores_time(dev, dev_info) ==
    LET slot_no == dev_info.fusion_slot
    IN  IF /\ slot_no >= 0
           /\ slot_no < NUM_POSE_DELAY_SLOTS
           /\ dev.delay_slots[slot_no].valid
        THEN slot_no
        ELSE -1

\* The slot a device exposure info refers to (-1 for NULL).
get_matching_delay_slot(dev, dev_info) ==
    LET slot_no == dev_info.fusion_slot
    IN  IF /\ slot_no >= 0
           /\ slot_no < NUM_POSE_DELAY_SLOTS
           /\ dev.delay_slots[slot_no].valid
           /\ dev.delay_slots[slot_no].device_time_ns = dev_info.device_time_ns
        THEN slot_no
        ELSE -1

\* POSE_LOST_THRESHOLD * 1000000UL and POSE_LOST_ORIENT_THRESHOLD * 1000000UL
PoseLostNs == U64(POSE_LOST_THRESHOLD * 1000000)
PoseLostOrientNs == U64(POSE_LOST_ORIENT_THRESHOLD * 1000000)

\* The slot rift_tracked_device_on_new_exposure gives the exposure (-1: none).
ExposureSlot(dev) ==
    LET found == find_free_delay_slot(dev)
    IN  IF found.slot # -1 THEN found.slot ELSE reclaim_delay_slot(dev)

\* An allocation that stamps the slot before the exposure's device time is
\* taken: the slot gets the time of the previous exposure.
rift_tracked_device_on_new_exposure_stale_time(d, dev, dev_info) ==
    LET found == find_free_delay_slot(dev)
        dev1 == [ dev EXCEPT !.delay_slot_index = found.index ]
        info1 == [ dev_info EXCEPT !.device_time_ns = dev.device_time_ns ]
        s == ExposureSlot(dev)
    IN  IF s # -1
        THEN [ dev |-> [ dev1 EXCEPT !.delay_slots[s] =
                           [ @ EXCEPT !.device_time_ns = dev_info.device_time_ns,
                                      !.valid = TRUE,
                                      !.use_count = 0,
                                      !.n_pose_reports = 0,
                                      !.n_used_reports = 0 ] ],
               info |-> [ info1 EXCEPT
                           !.fusion_slot = dev.delay_slots[s].slot_id,
                           !.had_pose_lock =
                               Lt64(Sub64(dev.device_time_ns, dev.last_observed_pose_ts),
                                    PoseLostNs) ],
               calls |-> << FilterCall("get_pose_at", d, -1),
                            FilterCall("prepare_delay_slot", d, s) >>,
               log |-> IF found.slot = -1
                       THEN << LogEntry("Reclaimed delay slot", d, s) >>
                       ELSE << >> ]
        ELSE [ dev |-> dev1,
               info |-> [ info1 EXCEPT !.fusion_slot = -1 ],
               calls |-> << >>,
               log |-> << LogEntry("No free delay slot", d, -1) >> ]

\* rift_tracked_device_on_new_exposure, called with the device lock held:
\* the device, its exposure info entry, the filter calls made and the
\* messages logged.
rift_tracked_device_on_new_exposure(d, dev, dev_info) ==
    LET found == find_free_delay_slot(dev)
        dev1 == [ dev EXCEPT !.delay_slot_index = found.index ]
        info1 == [ dev_info EXCEPT !.device_time_ns = dev.device_time_ns ]
        s == ExposureSlot(dev)
    IN  IF s # -1
        THEN [ dev |-> [ dev1 EXCEPT !.delay_slots[s] =
                           [ @ EXCEPT !.device_time_ns = info1.device_time_ns,
                                      !.valid = TRUE,
                                      !.use_count = 0,
                                      !.n_pose_reports = 0,
                                      !.n_used_reports = 0 ] ],
               info |-> [ info1 EXCEPT
                           !.fusion_slot = dev.delay_slots[s].slot_id,
                           !.had_pose_lock =
                               Lt64(Sub64(dev.device_time_ns, dev.last_observed_pose_ts),
                                    PoseLostNs) ],
               calls |-> << FilterCall("get_pose_at", d, -1),
                            FilterCall("prepare_delay_slot", d, s) >>,
               log |-> IF found.slot = -1
                       THEN << LogEntry("Reclaimed delay slot", d, s) >>
                       ELSE << >> ]
        ELSE [ dev |-> dev1,
               info |-> [ info1 EXCEPT !.fusion_slot = -1 ],
               calls |-> << >>,
               log |-> << LogEntry("No free delay slot", d, -1) >> ]

\* rift_tracked_device_exposure_claim: the device and the caller's info entry.
rift_tracked_device_exposure_claim(dev, dev_info) ==
    LET s == get_matching_delay_slot(dev, dev_info)
    IN  IF s # -1
        THEN [ dev |-> [ dev EXCEPT !.delay_slots[s].use_count = @ + 1 ],
               info |-> [ dev_info EXCEPT !.fusion_slot = dev.delay_slots[s].slot_id ],
               calls |-> << >> ]
        ELSE [ dev |-> dev,
               info |-> [ dev_info EXCEPT !.fusion_slot = -1 ],
               calls |-> << >> ]

\* A release that decrements without looking at the count.
ReleasedUseCountUnguarded(use_count) == use_count - 1

\* The use_count a release leaves in a matching slot.
ReleasedUseCount(use_count) ==
    IF use_count > 0 THEN use_count - 1 ELSE use_count

\* A release that frees the slot whatever count it leaves.
rift_tracked_device_exposure_release_always_frees(d, dev, dev_info) ==
    LET s == get_matching_delay_slot(dev, dev_info)
    IN  IF s # -1
        THEN [ dev |-> [ dev EXCEPT
                           !.delay_slots[s].use_count = ReleasedUseCount(@),
                           !.delay_slots[s].valid = FALSE ],
               info |-> [ dev_info EXCEPT !.fusion_slot = -1 ],
               calls |-> << FilterCall("release_delay_slot", d,
                                       dev.delay_slots[s].slot_id) >> ]
        ELSE [ dev |-> dev, info |-> dev_info, calls |-> << >> ]

\* rift_tracked_device_exposure_release_locked: the device, the caller's
\* info entry and the filter calls made.
rift_tracked_device_exposure_release_locked(d, dev, dev_info) ==
    LET s == get_matching_delay_slot(dev, dev_info)
    IN  IF s # -1
        THEN LET n == ReleasedUseCount(dev.delay_slots[s].use_count)
             IN  [ dev |-> [ dev EXCEPT
                               !.delay_slots[s].use_count = n,
                               !.delay_slots[s].valid = IF n = 0 THEN FALSE ELSE @ ],
                   info |-> [ dev_info EXCEPT !.fusion_slot = -1 ],
                   calls |-> IF n = 0
                             THEN << FilterCall("release_delay_slot", d,
                                                dev.delay_slots[s].slot_id) >>
                             ELSE << >> ]
        ELSE [ dev |-> dev, info |-> dev_info, calls |-> << >> ]

\* The calls made for devices i, i+1, ... below n, in the order of the loop.
RECURSIVE CallsFrom(_, _, _)
CallsFrom(per_dev, i, n) ==
    IF i >= n THEN << >> ELSE per_dev[i].calls \o CallsFrom(per_dev, i + 1, n)

RECURSIVE LogFrom(_, _, _)
LogFrom(per_dev, i, n) ==
    IF i >= n THEN << >> ELSE per_dev[i].log \o LogFrom(per_dev, i + 1, n)

(***************************************************************************)
(* rift_tracker_on_new_exposure                                            *)
(***************************************************************************)
\* A handler that takes every call for a new exposure.
ExposureChangedAlways(count, exposure_count) == TRUE

\* The handler's test for a new exposure.
ExposureChanged(count, exposure_count) == count # exposure_count

rift_tracker_on_new_exposure(now, hmd_ts, exposure_count, exposure_hmd_ts, led_pattern_phase) ==
    LET changed == ExposureChanged(exposure_info.count, exposure_count)
        per_dev == [ i \in DeviceIds |->
                        rift_tracked_device_on_new_exposure(
                            i, devices[i], exposure_info.devices[i]) ]
    IN  /\ IF changed
           THEN /\ exposure_info' =
                      [ local_ts |-> now,
                        hmd_ts |-> exposure_hmd_ts,
                        count |-> exposure_count,
                        led_pattern_phase |-> led_pattern_phase,
                        n_devices |-> n_devices,
                        devices |-> [ i \in DeviceIds |->
                            IF i < n_devices
                            THEN per_dev[i].info
                            ELSE [ exposure_info.devices[i] EXCEPT !.fusion_slot = -1 ] ] ]
                /\ have_exposure_info' = TRUE
                /\ devices' = [ i \in DeviceIds |->
                      IF i < n_devices
                      THEN rift_tracked_device_send_imu_debug(per_dev[i].dev)
                      ELSE devices[i] ]
                /\ last' = Ran(CallsFrom(per_dev, 0, n_devices), TRUE,
                               LogFrom(per_dev, 0, n_devices))
           ELSE /\ exposure_info' =
                      [ exposure_info EXCEPT !.led_pattern_phase = led_pattern_phase ]
                /\ last' = Ran(<< >>, FALSE, << >>)
                /\ UNCHANGED << have_exposure_info, devices >>
        /\ UNCHANGED << n_devices, frames, imu_count >>

(***************************************************************************)
(* Frame lifecycle hooks                                                   *)
(*                                                                         *)
(* The hooks take a pointer to a copy of the exposure info that the        *)
(* calling sensor owns and write to it.  A source src names that copy:     *)
(* a frame's stored copy (src in FrameIds) or, for src = FreshCopy, a copy *)
(* the sensor has just taken with rift_tracker_get_exposure_info and does  *)
(* not keep after the call.                                                *)
(***************************************************************************)
FreshCopy == 0

InfoOf(src) == IF src = FreshCopy THEN InfoCopy(exposure_info) ELSE frames[src]

\* The sensor's copies after a hook left new_info in the copy named src.
StoreInfo(frs, src, new_info) ==
    IF src = FreshCopy THEN frs ELSE [ frs EXCEPT ![src] = new_info ]

\* rift_tracker_get_exposure_info: a sensor copies the record by value.
rift_tracker_get_exposure_info(f) ==
    /\ frames' = [ frames EXCEPT ![f] = InfoCopy(exposure_info) ]
    /\ last' = Ran(<< >>, FALSE, << >>)
    /\ UNCHANGED << n_devices, devices, have_exposure_info, exposure_info, imu_count >>

\* Whether a claim with this info keeps every use_count within the model's cap.
ClaimWithinCap(devs, info) ==
    \A i \in DeviceIds :
        (i < n_devices /\ i < info.n_devices) =>
            LET s == get_matching_delay_slot(devs[i], info.devices[i])
            IN  s # -1 => devs[i].delay_slots[s].use_count < MaxUseCount

rift_tracker_frame_start(src) ==
    LET info == InfoOf(src)
        per_dev == [ i \in DeviceIds |->
                        rift_tracked_device_exposure_claim(devices[i], info.devices[i]) ]
        touched(i) == i < n_devices /\ i < info.n_devices
    IN  /\ ClaimWithinCap(devices, info)
        /\ devices' = [ i \in DeviceIds |->
              IF touched(i) THEN per_dev[i].dev ELSE devices[i] ]
        /\ frames' = StoreInfo(frames, src, [ info EXCEPT !.devices = [ i \in DeviceIds |->
              IF touched(i) THEN per_dev[i].info ELSE info.devices[i] ] ])
        /\ last' = Ran(<< >>, FALSE, << >>)
        /\ UNCHANGED << n_devices, have_exposure_info, exposure_info, imu_count >>

rift_tracker_frame_release(src) ==
    LET info == InfoOf(src)
        touched(i) == i < n_devices /\ i < info.n_devices
        per_dev == [ i \in DeviceIds |->
                      IF touched(i)
                      THEN rift_tracked_device_exposure_release_locked(
                               i, devices[i], info.devices[i])
                      ELSE [ dev |-> devices[i], info |-> info.devices[i],
                             calls |-> << >> ] ]
    IN  /\ devices' = [ i \in DeviceIds |-> per_dev[i].dev ]
        /\ frames' = StoreInfo(frames, src,
              [ info EXCEPT !.devices = [ i \in DeviceIds |-> per_dev[i].info ] ])
        /\ last' = Ran(CallsFrom(per_dev, 0, n_devices), FALSE, << >>)
        /\ UNCHANGED << n_devices, have_exposure_info, exposure_info, imu_count >>

\* rift_tracker_frame_changed_exposure: per device, release for the old
\* exposure and then claim for the new one.  The old info is frame fo's
\* copy.  With src = FreshCopy the sensor passes a fresh copy as the new
\* info and then keeps it as the frame's info in place of the old one.
rift_tracker_frame_changed_exposure(fo, src) ==
    LET old_info == frames[fo]
        new_info == InfoOf(src)
        rel_touched(i) == i < n_devices /\ i < old_info.n_devices
        clm_touched(i) == i < n_devices /\ i < new_info.n_devices
        rel == [ i \in DeviceIds |->
                   IF rel_touched(i)
                   THEN rift_tracked_device_exposure_release_locked(
                            i, devices[i], old_info.devices[i])
                   ELSE [ dev |-> devices[i], info |-> old_info.devices[i],
                          calls |-> << >> ] ]
        clm == [ i \in DeviceIds |->
                   IF clm_touched(i)
                   THEN rift_tracked_device_exposure_claim(rel[i].dev, new_info.devices[i])
                   ELSE [ dev |-> rel[i].dev, info |-> new_info.devices[i],
                          calls |-> << >> ] ]
        old_after == [ old_info EXCEPT !.devices = [ i \in DeviceIds |-> rel[i].info ] ]
        new_after == [ new_info EXCEPT !.devices = [ i \in DeviceIds |-> clm[i].info ] ]
    IN  /\ fo # src
        /\ ClaimWithinCap([ i \in DeviceIds |-> rel[i].dev ], new_info)
        /\ devices' = [ i \in DeviceIds |-> clm[i].dev ]
        /\ frames' = IF src = FreshCopy
                     THEN [ frames EXCEPT ![fo] = new_after ]
                     ELSE [ frames EXCEPT ![fo] = old_after, ![src] = new_after ]
        /\ last' = Ran(CallsFrom(rel, 0, n_devices), FALSE, << >>)
        /\ UNCHANGED << n_devices, have_exposure_info, exposure_info, imu_count >>

rift_tracked_device_frame_release(d, src) ==
    LET info == InfoOf(src)
        r == rift_tracked_device_exposure_release_locked(d, devices[d], info.devices[d])
    IN  /\ d < n_devices
        /\ IF d < info.n_devices
           THEN /\ devices' = [ devices EXCEPT ![d] = r.dev ]
                /\ frames' = StoreInfo(frames, src, [ info EXCEPT !.devices[d] = r.info ])
                /\ last' = Ran(r.calls, FALSE, << >>)
           ELSE /\ last' = Ran(<< >>, FALSE, << >>)
                /\ UNCHANGED << devices, frames >>
        /\ UNCHANGED << n_devices, have_exposure_info, exposure_info, imu_count >>

(***************************************************************************)
(* rift_tracked_device_model_pose_update                                   *)
(***************************************************************************)
\* score: [ pos |-> RIFT_POSE_MATCH_POSITION set, orient |-> RIFT_POSE_MATCH_ORIENT set ]
Scores == [ pos : BOOLEAN, orient : BOOLEAN ]

\* A position gate that does not ask whether a newer observation was applied.
UpdatePositionWithoutNewerTest(dev, dev_info, score) ==
    ~ ( dev_info.had_pose_lock /\ ~ score.pos )

\* The position gate, for a report with a matching slot.
UpdatePosition(dev, dev_info, score) ==
    ~ ( /\ dev_info.had_pose_lock
        /\ ~ score.pos
        /\ Lt64(dev_info.device_time_ns, dev.last_observed_pose_ts) )

\* The orientation gate, for a report with a matching slot.
UpdateOrientation(dev, score) ==
    \/ score.orient
    \/ Lt64(PoseLostOrientNs, Sub64(dev.device_time_ns, dev.last_observed_pose_ts))

\* A slot lookup that does not ask whether the device existed when the
\* exposure was taken.
PoseUpdateSlotWithoutDeviceTest(d, dev, info) ==
    get_matching_delay_slot(dev, info.devices[d])

\* The slot a report is for (-1: none): the device must have an entry in the
\* exposure info, and the entry must match a slot.
PoseUpdateSlot(d, dev, info) ==
    IF d < info.n_devices THEN get_matching_delay_slot(dev, info.devices[d]) ELSE -1

\* A filter invocation that always updates position and orientation.
PoseFilterCallsAlwaysPose(d, slot_id, update_position, update_orientation) ==
    IF update_position THEN << FilterCall("pose_update", d, slot_id) >> ELSE << >>

\* The filter calls of a report whose position and orientation have been
\* gated.
PoseFilterCalls(d, slot_id, update_position, update_orientation) ==
    IF update_position
    THEN IF update_orientation
         THEN << FilterCall("pose_update", d, slot_id) >>
         ELSE << FilterCall("position_update", d, slot_id) >>
    ELSE << >>

\* Observation times that record an orientation match the filter was not
\* given.
ObservedTimesOrientAlways(dev, score, update_position) ==
    LET dev1 == IF score.orient
                THEN [ dev EXCEPT !.last_observed_orient_ts = dev.device_time_ns ]
                ELSE dev
    IN  IF update_position
        THEN [ dev1 EXCEPT !.last_observed_pose_ts = dev.device_time_ns ]
        ELSE dev1

\* The device after the report's observation times are recorded.
ObservedTimes(dev, score, update_position) ==
    LET dev1 == IF score.orient /\ update_position
                THEN [ dev EXCEPT !.last_observed_orient_ts = dev.device_time_ns ]
                ELSE dev
    IN  IF update_position
        THEN [ dev1 EXCEPT !.last_observed_pose_ts = dev.device_time_ns ]
        ELSE dev1

\* The body of rift_tracked_device_model_pose_update under the device lock:
\* the device, the filter calls made and the value returned.
ModelPoseUpdate(d, dev0, info, score) ==
    LET dev == rift_tracked_device_send_imu_debug(dev0)
        dev_info == info.devices[d]
        s == PoseUpdateSlot(d, dev, info)
    IN  IF s = -1
        THEN [ dev |-> dev, calls |-> << >>, ret |-> FALSE ]
        ELSE
          LET update_position == UpdatePosition(dev, dev_info, score)
              update_orientation == UpdateOrientation(dev, score)
              slot == dev.delay_slots[s]
              dev2 == ObservedTimes(dev, score, update_position)
              dev3 == IF slot.n_pose_reports < RIFT_MAX_SENSORS
                      THEN [ dev2 EXCEPT
                               !.delay_slots[s].n_used_reports =
                                   IF update_position THEN @ + 1 ELSE @,
                               !.delay_slots[s].n_pose_reports = @ + 1 ]
                      ELSE dev2
          IN  [ dev |-> dev3,
                calls |-> PoseFilterCalls(d, slot.slot_id, update_position,
                                          update_orientation),
                ret |-> update_position \/ update_orientation ]

rift_tracked_device_model_pose_update(d, src, score) ==
    /\ d < n_devices
    /\ LET r == ModelPoseUpdate(d, devices[d], InfoOf(src), score)
       IN  /\ devices' = [ devices EXCEPT ![d] = r.dev ]
           /\ last' = Ran(r.calls, FALSE, << >>)
    /\ UNCHANGED << n_devices, have_exposure_info, exposure_info, frames, imu_count >>

(***************************************************************************)
(* rift_tracked_device_get_latest_exposure_info_pose                       *)
(***************************************************************************)
\* The body of the query: the caller's info entry, the filter calls made and
\* the value returned.  (The pose written to a matching entry is an external
\* value.)
GetLatestExposureInfoPose(d, dev, dev_info) ==
    IF dev_info.fusion_slot = -1
    THEN [ info |-> dev_info, calls |-> << >>, ret |-> FALSE ]
    ELSE LET s == get_matching_delay_slot(dev, dev_info)
         IN  IF s # -1
             THEN [ info |-> dev_info,
                    calls |-> << FilterCall("get_delay_slot_pose_at", d,
                                            dev.delay_slots[s].slot_id) >>,
                    ret |-> TRUE ]
             ELSE [ info |-> [ dev_info EXCEPT !.fusion_slot = -1 ],
                    calls |-> << >>, ret |-> FALSE ]

\* The sensor queries with the entry of device d in its copy src.
rift_tracked_device_get_latest_exposure_info_pose(d, src) ==
    LET info == InfoOf(src)
        r == GetLatestExposureInfoPose(d, devices[d], info.devices[d])
    IN  /\ d < n_devices
        /\ frames' = StoreInfo(frames, src, [ info EXCEPT !.devices[d] = r.info ])
        /\ last' = [ Ran(r.calls, FALSE, << >>) EXCEPT
                       !.out = Returned("get_latest_exposure_info_pose", d, r.ret) ]
        /\ UNCHANGED << n_devices, devices, have_exposure_info, exposure_info, imu_count >>

(***************************************************************************)
(* rift_tracked_device_get_view_pose                                       *)
(***************************************************************************)
\* The position is declared lost.
PoseLost(dev) ==
    ~ Lt64(Sub64(dev.device_time_ns, dev.last_observed_pose_ts), PoseLostNs)

\* A query that runs the output filter at every call.
GetViewPoseAlwaysFilters(d, dev) ==
    LET refresh == TRUE
        freeze == refresh /\ PoseLost(dev)
        dev1 == IF refresh
                THEN [ dev EXCEPT
                         !.reported_pose =
                             [ pos |-> IF freeze THEN dev.reported_pose.pos
                                       ELSE dev.device_time_ns,
                               orient |-> dev.device_time_ns ],
                         !.last_reported_pose = dev.device_time_ns ]
                ELSE dev
    IN  [ dev |-> dev1,
          out |-> [ fn |-> "get_view_pose", dev |-> d,
                    pose |-> dev1.reported_pose,
                    filtered |-> refresh,
                    vel |-> IF freeze THEN "zero" ELSE "filter",
                    accel |-> IF freeze THEN "zero" ELSE "filter",
                    ang_vel |-> "filter" ] ]

\* The body of rift_tracked_device_get_view_pose under the device lock: the
\* device and the values returned.  The velocity and the acceleration come
\* from the filter and are zeroed only inside the refresh of reported_pose;
\* filtered says whether exp_filter_pose_run was called.
GetViewPose(d, dev) ==
    LET refresh == Lt64(dev.last_reported_pose, dev.device_time_ns)
        freeze == refresh /\ PoseLost(dev)
        dev1 == IF refresh
                THEN [ dev EXCEPT
                         !.reported_pose =
                             [ pos |-> IF freeze THEN dev.reported_pose.pos
                                       ELSE dev.device_time_ns,
                               orient |-> dev.device_time_ns ],
                         !.last_reported_pose = dev.device_time_ns ]
                ELSE dev
    IN  [ dev |-> dev1,
          out |-> [ fn |-> "get_view_pose", dev |-> d,
                    pose |-> dev1.reported_pose,
                    filtered |-> refresh,
                    vel |-> IF freeze THEN "zero" ELSE "filter",
                    accel |-> IF freeze THEN "zero" ELSE "filter",
                    ang_vel |-> "filter" ] ]

rift_tracked_device_get_view_pose(d) ==
    /\ d < n_devices
    /\ LET r == GetViewPose(d, devices[d])
       IN  /\ devices' = [ devices EXCEPT ![d] = r.dev ]
           /\ last' = [ Ran(<< FilterCall("get_pose_at", d, -1) >>, FALSE, << >>)
                          EXCEPT !.out = r.out ]
    /\ UNCHANGED << n_devices, have_exposure_info, exposure_info, frames, imu_count >>

(***************************************************************************)
(* UVC frame assembler (sensor/uvc.c)                                      *)
(*                                                                         *)
(* frame_collected, frame_size and payload_len are C ints; the values the  *)
(* model reaches are far from their limits.                                *)
(***************************************************************************)
VARIABLES
    stream,     \* struct rift_sensor_uvc_stream: the assembler's fields
    held,       \* frames handed to the frame callback and not yet released
    uvc_last    \* what the last payload did: the frame it handed to the
                \* callback, the messages it printed, whether it crashed

uvc_vars == << stream, held, uvc_last >>

UvcFrameIds == 1 .. MaxUvcFrames
NoFrame == 0

\* The pts of a payload without the PTS bit: (uint32_t)(-1).
NoPts == << W16 - 1, W16 - 1 >>

UvcRan(cb, log, crashed) == [ cb |-> cb, log |-> log, crashed |-> crashed ]

\* rift_sensor_uvc_stream_start on a zeroed stream set up for frames of
\* frame_size bytes: the pool is allocated and every frame is free.
UvcInit ==
    /\ stream = [ free_frames |-> [ i \in 0 .. (MaxUvcFrames - 1) |-> i + 1 ],
                  n_free_frames |-> MaxUvcFrames,
                  n_alloced_frames |-> MaxUvcFrames,
                  cur_frame |-> NoFrame,
                  frame_id |-> 0,
                  cur_pts |-> Zero32,
                  frame_collected |-> 0,
                  frame_size |-> UvcFrameSize,
                  skip_frame |-> FALSE ]
    /\ held = {}
    /\ uvc_last = UvcRan(NoFrame, << >>, FALSE)

\* bmHeaderInfo, by the bits process_payload reads.
HeaderInfos == [ frame_id : { 0, 1 }, is_eof : BOOLEAN, have_pts : BOOLEAN,
                 error : BOOLEAN ]

\* The PTS step: a PTS that changes inside a frame is logged and adopted.
PayloadPts(st, info, dwPresentationTime) ==
    LET pts == IF info.have_pts THEN dwPresentationTime ELSE NoPts
        jump == info.have_pts /\ st.frame_collected # 0 /\ pts # st.cur_pts
    IN  [ pts |-> pts,
          st |-> IF jump THEN [ st EXCEPT !.cur_pts = pts ] ELSE st,
          log |-> IF jump THEN << "UVC PTS changed in-frame" >> ELSE << >> ]

\* A start of frame that goes on counting from the bytes already collected.
PayloadNewFrameKeepsCount(st, info, pts) ==
    IF info.frame_id = st.frame_id
    THEN [ st |-> st, log |-> << >> ]
    ELSE LET take == st.cur_frame = NoFrame /\ st.n_free_frames > 0
             st1 == IF take
                    THEN [ st EXCEPT !.n_free_frames = @ - 1,
                                     !.cur_frame = st.free_frames[st.n_free_frames - 1] ]
                    ELSE st
             st2 == [ st1 EXCEPT !.frame_id = info.frame_id,
                                 !.cur_pts = pts,
                                 !.skip_frame = (st1.cur_frame = NoFrame) ]
         IN  [ st |-> st2,
               log |-> IF st.frame_collected > 0
                       THEN << "UVC Dropping short frame" >> ELSE << >> ]

\* A start of frame that never leaves the skipping state once it is in it.
PayloadNewFrameSkipSticks(st, info, pts) ==
    IF info.frame_id = st.frame_id
    THEN [ st |-> st, log |-> << >> ]
    ELSE LET take == st.cur_frame = NoFrame /\ st.n_free_frames > 0
             st1 == IF take
                    THEN [ st EXCEPT !.n_free_frames = @ - 1,
                                     !.cur_frame = st.free_frames[st.n_free_frames - 1] ]
                    ELSE st
             st2 == [ st1 EXCEPT !.frame_id = info.frame_id,
                                 !.cur_pts = pts,
                                 !.frame_collected = 0,
                                 !.skip_frame = (st.skip_frame \/ st1.cur_frame = NoFrame) ]
         IN  [ st |-> st2,
               log |-> (IF st.frame_collected > 0
                        THEN << "UVC Dropping short frame" >> ELSE << >>)
                       \o (IF st1.cur_frame = NoFrame
                           THEN << "No frame provided for pixel data. Skipping frame" >>
                           ELSE << >>) ]

\* The start of a new frame, when the payload's parity differs from frame_id.
PayloadNewFrame(st, info, pts) ==
    IF info.frame_id = st.frame_id
    THEN [ st |-> st, log |-> << >> ]
    ELSE LET take == st.cur_frame = NoFrame /\ st.n_free_frames > 0
             st1 == IF take
                    THEN [ st EXCEPT !.n_free_frames = @ - 1,
                                     !.cur_frame = st.free_frames[st.n_free_frames - 1] ]
                    ELSE st
             st2 == [ st1 EXCEPT !.frame_id = info.frame_id,
                                 !.cur_pts = pts,
                                 !.frame_collected = 0,
                                 !.skip_frame = (st1.cur_frame = NoFrame) ]
         IN  [ st |-> st2,
               log |-> (IF st.frame_collected > 0
                        THEN << "UVC Dropping short frame" >> ELSE << >>)
                       \o (IF st1.cur_frame = NoFrame
                           THEN << "No frame provided for pixel data. Skipping frame" >>
                           ELSE << >>) ]

\* A completion that hands the frame to the callback and keeps it as the
\* current frame.
PayloadCollectKeepsFrame(st, info, payload_len) ==
    LET st1 == [ st EXCEPT !.frame_collected = @ + payload_len ]
        full == st1.frame_collected = st1.frame_size
        st2 == IF full THEN [ st1 EXCEPT !.frame_collected = 0 ] ELSE st1
        st3 == IF info.is_eof THEN [ st2 EXCEPT !.frame_collected = 0 ] ELSE st2
    IN  [ st |-> st3, cb |-> IF full THEN st1.cur_frame ELSE NoFrame ]

\* The copy of the payload body into the current frame and what follows it.
PayloadCollect(st, info, payload_len) ==
    LET st1 == [ st EXCEPT !.frame_collected = @ + payload_len ]
        full == st1.frame_collected = st1.frame_size
        st2 == IF full
               THEN [ st1 EXCEPT !.cur_frame = NoFrame, !.frame_collected = 0 ]
               ELSE st1
        st3 == IF info.is_eof THEN [ st2 EXCEPT !.frame_collected = 0 ] ELSE st2
    IN  [ st |-> st3, cb |-> IF full THEN st1.cur_frame ELSE NoFrame ]

\* The tests a payload must pass before anything is done with it: "empty" for
\* a payload with no body, the message printed for a refused header, or "ok".
PayloadHeaderCheckErrorBitIgnored(len, bHeaderLength, info) ==
    IF len = 0 \/ len = 12 THEN "empty"
    ELSE IF bHeaderLength # 12 THEN "invalid header"
    ELSE "ok"

PayloadHeaderCheck(len, bHeaderLength, info) ==
    IF len = 0 \/ len = 12 THEN "empty"
    ELSE IF bHeaderLength # 12 THEN "invalid header"
    ELSE IF info.error THEN "UVC frame error"
    ELSE "ok"

\* The body of process_payload for a payload of len bytes whose first bytes
\* read as bHeaderLength, info and dwPresentationTime: the stream it leaves,
\* the frame handed to the callback, the messages printed.  A negative
\* payload_len makes the memcpy undefined: ub says whether the process dies
\* in it or goes on.
ProcessPayload(st0, len, bHeaderLength, info, dwPresentationTime, ub) ==
    LET ignored(log) == [ st |-> st0, cb |-> NoFrame, log |-> log, crashed |-> FALSE ]
        check == PayloadHeaderCheck(len, bHeaderLength, info)
    IN  IF check = "empty" THEN ignored(<< >>)
        ELSE IF check # "ok" THEN ignored(<< check >>)
        ELSE
          LET payload_len == len - bHeaderLength
              p == PayloadPts(st0, info, dwPresentationTime)
              n == PayloadNewFrame(p.st, info, p.pts)
              st == n.st
              log == p.log \o n.log
          IN  IF st.skip_frame \/ st.cur_frame = NoFrame
              THEN [ st |-> st, cb |-> NoFrame, log |-> log, crashed |-> FALSE ]
              ELSE IF st.frame_collected + payload_len > st.frame_size
              THEN [ st |-> st, cb |-> NoFrame,
                     log |-> log \o << "UVC frame buffer overflow" >>,
                     crashed |-> FALSE ]
              ELSE IF payload_len < 0 /\ ub = "crash"
              THEN [ st |-> st, cb |-> NoFrame, log |-> log, crashed |-> TRUE ]
              ELSE LET c == PayloadCollect(st, info, payload_len)
                   IN  [ st |-> c.st, cb |-> c.cb, log |-> log, crashed |-> FALSE ]

process_payload(len, bHeaderLength, info, dwPresentationTime, ub) ==
    /\ ~ uvc_last.crashed
    /\ LET r == ProcessPayload(stream, len, bHeaderLength, info,
                               dwPresentationTime, ub)
       IN  /\ stream' = r.st
           /\ held' = IF r.cb # NoFrame THEN held \cup { r.cb } ELSE held
           /\ uvc_last' = UvcRan(r.cb, r.log, r.crashed)

\* The consumer of a delivered frame takes it when the callback runs; the
\* frame's releasefn, rift_sensor_uvc_stream_release_frame, puts it back.
rift_sensor_uvc_stream_release_frame(frame) ==
    /\ ~ uvc_last.crashed
    /\ frame \in held
    /\ stream.n_free_frames < stream.n_alloced_frames
    /\ stream' = [ stream EXCEPT !.free_frames[stream.n_free_frames] = frame,
                                 !.n_free_frames = @ + 1 ]
    /\ held' = held \ { frame }
    /\ uvc_last' = UvcRan(NoFrame, << >>, FALSE)

(***************************************************************************)
(* Isochronous transfers of the stream (sensor/uvc.c)                      *)
(*                                                                         *)
(* rift_sensor_uvc_stream_start and rift_sensor_uvc_stream_stop run on the *)
(* application thread, iso_transfer_cb on the USB event thread.  No lock   *)
(* is shared between them, so each thread goes through its function one    *)
(* access to the shared fields at a time.                                  *)
(***************************************************************************)
VARIABLES
    video_running,      \* stream->video_running
    active_transfers,   \* stream->active_transfers (a C int)
    transfer,           \* per transfer: "idle" (not submitted or retired),
                        \* "in_flight" (submitted, callback not yet run) or
                        \* "in_cb" (its callback is before the resubmission)
    pool,               \* "allocated" or "freed": the frame pool
    setup,              \* per sensor: what rift_sensor_uvc_stream_setup left in
                        \* its stream (nothing before the sensor is opened)
    resubmitted,        \* what the last resubmission loop of a callback did:
                        \* the libusb_submit_transfer calls it made, whether
                        \* the last one succeeded, the message it printed
    app                 \* the application thread: where it is in stream
                        \* start or stop, and how the last call ended

transfer_vars == << video_running, active_transfers, transfer, pool, setup, resubmitted, app >>

TransferIds == 0 .. (num_transfers - 1)

\* The sensors the tracker opens, each with a stream of its own.
SensorIds == 1 .. MaxSensorsOpened

\* idProduct of the device: the two sensors the driver supports, and any
\* other.
ProductIds == { "DK2_PID", "CV1_PID", "other" }

\* Where rift_sensor_uvc_stream_setup fails: nowhere, in a libusb call
\* (before the layout is computed), or in the allocation of the transfers.
SetupFailures == { "none", "libusb", "alloc" }

\* A stream rift_sensor_uvc_stream_setup has not written to.
NotSetUp ==
    [ done |-> FALSE, ret |-> 0, frame_size |-> 0, num_transfers |-> 0,
      num_packets |-> 0, packet_size |-> 0 ]

\* The switch on idProduct: stride, height and packet_size of the profile.
SensorProfile(pid) ==
    IF pid = "DK2_PID"
    THEN [ stride |-> 752, height |-> 480, packet_size |-> 3060 ]
    ELSE [ stride |-> RIFT_SENSOR_WIDTH, height |-> RIFT_SENSOR_HEIGHT,
           packet_size |-> 16384 ]

\* The transfer layout: the packets a frame needs, the transfers of at most
\* 32 packets that hold them, and the packets of each transfer (C integer
\* divisions).
TransferLayout(frame_size, packet_size) ==
    LET num_packets == (frame_size + packet_size - 1) \div packet_size
        n == (num_packets + 31) \div 32
    IN  [ num_transfers |-> n, num_packets |-> num_packets \div n ]

\* rift_sensor_uvc_stream_setup for a device with the given idProduct.
StreamSetup(pid, fail) ==
    IF fail = "libusb" THEN [ NotSetUp EXCEPT !.done = TRUE, !.ret = -1 ]
    ELSE IF pid \notin { "DK2_PID", "CV1_PID" }
    THEN [ NotSetUp EXCEPT !.done = TRUE, !.ret = -1 ]
    ELSE LET prof == SensorProfile(pid)
             frame_size == prof.stride * prof.height
             l == TransferLayout(frame_size, prof.packet_size)
         IN  [ done |-> TRUE,
               ret |-> IF fail = "alloc" THEN -12 ELSE 0,
               frame_size |-> frame_size,
               num_transfers |-> l.num_transfers,
               num_packets |-> l.num_packets,
               packet_size |-> prof.packet_size ]

\* The tracker opens sensor s.
rift_sensor_uvc_stream_setup(s, pid, fail) ==
    /\ ~ setup[s].done
    /\ setup' = [ setup EXCEPT ![s] = StreamSetup(pid, fail) ]
    /\ UNCHANGED << video_running, active_transfers, transfer, pool, resubmitted, app, uvc_vars >>

\* No callback has reached its resubmission loop yet.
NoResubmit == [ attempts |-> 0, ok |-> TRUE, log |-> "" ]

AppIdle(stop_returned, ret) ==
    [ pc |-> "idle", i |-> 0, in_start |-> FALSE, stop_returned |-> stop_returned, ret |-> ret ]

\* The stream right after a rift_sensor_uvc_stream_start that returned 0 and
\* before any transfer has completed.
TransferInit ==
    /\ video_running = TRUE
    /\ active_transfers = num_transfers
    /\ transfer = [ t \in TransferIds |-> "in_flight" ]
    /\ pool = "allocated"
    /\ setup = [ s \in SensorIds |-> NotSetUp ]
    /\ resubmitted = NoResubmit
    /\ app = AppIdle(FALSE, 0)

\* rift_sensor_uvc_stream_start up to the submit loop.  The caller starts a
\* stream that is not running (the assert).
rift_sensor_uvc_stream_start ==
    /\ app.pc = "idle"
    /\ ~ video_running
    /\ ~ uvc_last.crashed
    /\ video_running' = TRUE
    /\ stream' = [ stream EXCEPT
           !.cur_frame = NoFrame,
           !.free_frames = [ i \in 0 .. (MaxUvcFrames - 1) |-> i + 1 ],
           !.n_free_frames = MaxUvcFrames,
           !.n_alloced_frames = MaxUvcFrames ]
    /\ held' = {}
    /\ pool' = "allocated"
    /\ app' = [ pc |-> "submit", i |-> 0, in_start |-> TRUE,
                stop_returned |-> FALSE, ret |-> 0 ]
    /\ UNCHANGED << setup, active_transfers, transfer, resubmitted, uvc_last >>

\* One round of the submit loop: libusb_submit_transfer succeeds (ok) or
\* fails, and then the count is set to i and the stream is stopped.
StreamStartSubmit(ok) ==
    /\ app.pc = "submit"
    /\ app.i < num_transfers
    /\ IF ok
       THEN /\ transfer' = [ transfer EXCEPT ![app.i] = "in_flight" ]
            /\ app' = [ app EXCEPT !.i = @ + 1 ]
            /\ UNCHANGED active_transfers
       ELSE /\ active_transfers' = app.i
            /\ app' = [ app EXCEPT !.pc = "stop", !.ret = -1 ]
            /\ UNCHANGED transfer
    /\ UNCHANGED << setup, video_running, pool, resubmitted, uvc_vars >>

\* After the loop: active_transfers = num_transfers; return 0.
StreamStartReturn ==
    /\ app.pc = "submit"
    /\ app.i = num_transfers
    /\ active_transfers' = num_transfers
    /\ app' = AppIdle(FALSE, 0)
    /\ UNCHANGED << setup, video_running, transfer, pool, resubmitted, uvc_vars >>

\* The application calls rift_sensor_uvc_stream_stop on a running stream.
rift_sensor_uvc_stream_stop ==
    /\ app.pc = "idle"
    /\ video_running
    /\ app' = [ app EXCEPT !.pc = "stop", !.stop_returned = FALSE, !.ret = 0 ]
    /\ UNCHANGED << setup, video_running, active_transfers, transfer, pool, resubmitted, uvc_vars >>

\* libusb_set_interface_alt_setting: when it fails, stop returns its error;
\* when not, video_running is cleared and the wait begins.  A stop called by
\* a failed stream start returns into it, and stream start returns its own
\* error.
StreamStopAltSetting(ok) ==
    /\ app.pc = "stop"
    /\ IF ok
       THEN /\ video_running' = FALSE
            /\ app' = [ app EXCEPT !.pc = "stop_wait" ]
       ELSE /\ app' = AppIdle(TRUE, -1)
            /\ UNCHANGED video_running
    /\ UNCHANGED << setup, active_transfers, transfer, pool, resubmitted, uvc_vars >>

\* The wait loop is left when active_transfers > 0 is false; the frames are
\* freed and stop returns 0.  (libusb_wait_for_event without a timeout
\* returns 0 whenever the event thread has handled events.)
StreamStopWait ==
    /\ app.pc = "stop_wait"
    /\ ~ (active_transfers > 0)
    /\ pool' = "freed"
    /\ app' = AppIdle(TRUE, IF app.in_start THEN app.ret ELSE 0)
    /\ UNCHANGED << setup, video_running, active_transfers, transfer, resubmitted, uvc_vars >>

TransferStatuses == { "COMPLETED", "ERROR", "CANCELLED" }

\* The event thread runs one callback at a time.
InCallback == { t \in TransferIds : transfer[t] = "in_cb" }

\* The tests at the head of iso_transfer_cb: the transfer is retired when it
\* did not complete or the stream is no longer running.
IsoTransferRetired(status) == status # "COMPLETED" \/ ~ video_running

\* iso_transfer_cb of a completed transfer up to the resubmission: a retired
\* transfer lowers the count; otherwise the packet of the transfer goes
\* through process_payload.
iso_transfer_cb(t, status, len, bHeaderLength, info, dwPresentationTime, ub) ==
    /\ transfer[t] = "in_flight"
    /\ InCallback = {}
    /\ ~ uvc_last.crashed
    /\ IF IsoTransferRetired(status)
       THEN /\ active_transfers' = active_transfers - 1
            /\ transfer' = [ transfer EXCEPT ![t] = "idle" ]
            /\ UNCHANGED uvc_vars
       ELSE /\ process_payload(len, bHeaderLength, info, dwPresentationTime, ub)
            /\ transfer' = [ transfer EXCEPT ![t] = "in_cb" ]
            /\ UNCHANGED active_transfers
    /\ UNCHANGED << setup, video_running, pool, resubmitted, app >>

\* The outcomes libusb_submit_transfer would have at each round of the
\* resubmission loop (TRUE: ret >= 0).
SubmitOutcomes == [ 1 .. SubmitAttempts -> BOOLEAN ]

\* The resubmission loop: for (i = 0; i < 5; i++) with a break at the first
\* success.  attempts is the number of libusb_submit_transfer calls made.
ResubmitLoop(outcomes) ==
    LET good == { k \in 1 .. SubmitAttempts : outcomes[k] }
        first == CHOOSE k \in good : \A j \in good : k <= j
    IN  IF good = {}
        THEN [ attempts |-> SubmitAttempts, ok |-> FALSE, log |-> "failed to resubmit" ]
        ELSE [ attempts |-> first, ok |-> TRUE,
               log |-> IF first > 1 THEN "resubmitted xfer" ELSE "" ]

\* The end of iso_transfer_cb: the resubmission loop, after which the
\* transfer is in flight again or retired.
IsoTransferResubmit(t, outcomes) ==
    /\ transfer[t] = "in_cb"
    /\ LET r == ResubmitLoop(outcomes)
       IN  /\ resubmitted' = r
           /\ IF r.ok
              THEN /\ transfer' = [ transfer EXCEPT ![t] = "in_flight" ]
                   /\ UNCHANGED active_transfers
              ELSE /\ transfer' = [ transfer EXCEPT ![t] = "idle" ]
                   /\ active_transfers' = active_transfers - 1
    /\ UNCHANGED << setup, video_running, pool, app, uvc_vars >>

(***************************************************************************)
(* History of the exposures (not program state): the number of exposures   *)
(* handled so far, the exposure each slot was last given to, the exposure  *)
(* each stored copy was taken for, and the exposures (per device) whose    *)
(* slot has had its use_count raised and brought back to 0.  Only the      *)
(* specification of the stale copies records it.                           *)
(***************************************************************************)
VARIABLE history

NoHistory ==
    [ seq |-> 0,
      owner |-> [ d \in DeviceIds |-> [ s \in SlotIds |-> 0 ] ],
      copy_of |-> [ f \in FrameIds |-> 0 ],
      spent |-> {} ]

(***************************************************************************)
(* Locks of the tracker: tracker_lock and one device_lock per device.      *)
(* Each thread runs one handler at a time and goes through the handler's   *)
(* ohmd_lock_mutex and ohmd_unlock_mutex calls one by one.                 *)
(***************************************************************************)
VARIABLES
    locks,      \* the thread that holds tracker_lock and each device_lock
    threads     \* per thread: the handler it is in, its argument, the
                \* number of lock operations of the handler it has done, and
                \* the ctx->n_devices it works with (read under its first lock)

lock_vars == << locks, threads >>

LockThreads == 1 .. MaxLockThreads
NoThread == 0
\* The lock operations name tracker_lock by TrackerLock and a device_lock by
\* the device's index.
TrackerLock == -1

IdleThread == [ op |-> "idle", arg |-> 0, pos |-> 0, n |-> 0 ]

LockInit ==
    /\ locks = [ tracker_lock |-> NoThread,
                 device_lock |-> [ d \in DeviceIds |-> NoThread ] ]
    /\ threads = [ t \in LockThreads |-> IdleThread ]

\* Handlers that take tracker_lock and, under it, each device_lock in turn.
LoopOps ==
    { "rift_tracker_on_new_exposure", "rift_tracker_frame_start",
      "rift_tracker_frame_changed_exposure", "rift_tracker_frame_captured",
      "rift_tracker_frame_release" }
\* Handlers that take tracker_lock only.
TrackerOps ==
    { "rift_tracker_add_device", "rift_tracker_get_exposure_info",
      "rift_tracker_update_sensor_pose" }
\* Handlers of one device, which take its device_lock only.
DeviceOps ==
    { "rift_tracked_device_imu_update", "rift_tracked_device_get_view_pose",
      "rift_tracked_device_get_latest_exposure_info_pose",
      "rift_tracked_device_model_pose_update",
      "rift_tracked_device_get_model_pose", "rift_tracked_device_frame_release" }

LockOp(lock) == [ act |-> "lock", lock |-> lock ]
UnlockOp(lock) == [ act |-> "unlock", lock |-> lock ]
\* The calls rift_tracker_on_new_exposure makes after it has unlocked
\* tracker_lock: rift_sensor_update_exposure (sensor_ctx, &ctx->exposure_info)
\* for each sensor.  It takes no lock of the tracker.
NotifyOp == [ act |-> "notify", lock |-> TrackerLock ]

\* The lock operations of the per-device loop, from device i, for n devices.
RECURSIVE DeviceLoop(_, _)
DeviceLoop(i, n) ==
    IF i >= n THEN << >>
    ELSE << LockOp(i), UnlockOp(i) >> \o DeviceLoop(i + 1, n)

\* A pose update that takes tracker_lock while it holds the device_lock.
HandlerLocksTrackerUnderDevice(op, arg, n) ==
    IF op \in DeviceOps
    THEN << LockOp(arg), LockOp(TrackerLock), UnlockOp(TrackerLock), UnlockOp(arg) >>
    ELSE << LockOp(TrackerLock) >> \o DeviceLoop(0, n) \o << UnlockOp(TrackerLock) >>

\* Device handlers that take tracker_lock instead of the device_lock.
HandlerLocksDeviceUnderTrackerLock(op, arg, n) ==
    IF op \in DeviceOps \/ op \in TrackerOps \/ (op = "rift_tracker_on_new_exposure" /\ arg = 0)
    THEN << LockOp(TrackerLock), UnlockOp(TrackerLock) >>
    ELSE << LockOp(TrackerLock) >> \o DeviceLoop(0, n) \o << UnlockOp(TrackerLock) >>

\* The lock operations of a handler, in the order of its code, with n
\* devices in the table.  arg is the device of a device handler; for
\* rift_tracker_on_new_exposure it is 1 when the exposure count differs from
\* the stored one (only then are the devices visited and the sensors
\* notified) and 0 when not.
HandlerLocks(op, arg, n) ==
    IF op \in DeviceOps
    THEN << LockOp(arg), UnlockOp(arg) >>
    ELSE IF op \in TrackerOps \/ (op = "rift_tracker_on_new_exposure" /\ arg = 0)
    THEN << LockOp(TrackerLock), UnlockOp(TrackerLock) >>
    ELSE IF op = "rift_tracker_on_new_exposure"
    THEN << LockOp(TrackerLock) >> \o DeviceLoop(0, n)
            \o << UnlockOp(TrackerLock), NotifyOp >>
    ELSE << LockOp(TrackerLock) >> \o DeviceLoop(0, n) \o << UnlockOp(TrackerLock) >>

Owner(lock) ==
    IF lock = TrackerLock THEN locks.tracker_lock ELSE locks.device_lock[lock]

SetOwner(lock, t) ==
    IF lock = TrackerLock
    THEN [ locks EXCEPT !.tracker_lock = t ]
    ELSE [ locks EXCEPT !.device_lock[lock] = t ]

\* The operations of the handler a thread is in.  The handler reads
\* ctx->n_devices under its first lock.
HandlerProgram(th) ==
    HandlerLocks(th.op, th.arg, IF th.pos = 0 THEN n_devices ELSE th.n)

\* The next lock operation of a thread that is inside a handler.
NextLockOp(t) == HandlerProgram(threads[t])[threads[t].pos + 1]

\* The devices whose Kalman filter or delay slots a handler uses once it has
\* done pos of its lock operations: a device handler between its lock and
\* its unlock, a handler with the per-device loop in the loop body of device
\* i (after tracker_lock, i earlier bodies and the body's own lock), and
\* rift_tracker_add_device, which sets up the filter and the slots of the
\* device it is about to add.  rift_tracker_frame_captured only logs.
FilterAccess(op, arg, n, pos) ==
    IF op \in DeviceOps THEN (IF pos = 1 THEN { arg } ELSE {})
    ELSE IF op = "rift_tracker_add_device" THEN (IF pos = 1 THEN { n } ELSE {})
    ELSE IF op \in LoopOps \ { "rift_tracker_frame_captured" }
            /\ ~ (op = "rift_tracker_on_new_exposure" /\ arg = 0)
    THEN { i \in 0 .. (n - 1) : pos = 2 * i + 2 }
    ELSE {}

\* Whether a handler reads or writes ctx->exposure_info once it has done pos
\* of its lock operations: rift_tracker_get_exposure_info under the lock,
\* rift_tracker_on_new_exposure under the lock and, when the count changed,
\* after the unlock, where it hands &ctx->exposure_info to every sensor.
ExposureInfoAccess(op, arg, n, pos) ==
    IF op = "rift_tracker_get_exposure_info" THEN pos = 1
    ELSE IF op = "rift_tracker_on_new_exposure"
    THEN (IF arg = 0 THEN pos = 1 ELSE pos >= 1)
    ELSE FALSE

Adding == { t \in LockThreads : threads[t].op = "rift_tracker_add_device" }

\* A thread enters a handler.  A device handler is called for a device that
\* has been added; callers add no more devices than the table holds.
HandlerCall(t, op, arg) ==
    /\ threads[t].op = "idle"
    /\ op \in DeviceOps => arg < n_devices
    /\ op \in (LoopOps \cup TrackerOps) => arg \in { 0, 1 }
    /\ op \in ((LoopOps \cup TrackerOps) \ { "rift_tracker_on_new_exposure" }) => arg = 0
    /\ op = "rift_tracker_add_device"
          => n_devices + Cardinality(Adding) < RIFT_MAX_TRACKED_DEVICES
    /\ threads' = [ threads EXCEPT ![t] = [ op |-> op, arg |-> arg, pos |-> 0, n |-> 0 ] ]
    /\ UNCHANGED << locks, tracker_vars >>

\* A thread does the next ohmd_lock_mutex (when the mutex is free),
\* ohmd_unlock_mutex or notification of its handler; after the last one it
\* has returned.
\* rift_tracker_add_device has added its device when it unlocks.
HandlerLockStep(t) ==
    /\ threads[t].op # "idle"
    /\ LET th == threads[t]
           prog == HandlerProgram(th)
           o == prog[th.pos + 1]
       IN  /\ o.act = "lock" => Owner(o.lock) = NoThread
           /\ locks' = IF o.act = "notify" THEN locks
                       ELSE SetOwner(o.lock, IF o.act = "lock" THEN t ELSE NoThread)
           /\ threads' = [ threads EXCEPT ![t] =
                  IF th.pos + 1 = Len(prog) THEN IdleThread
                  ELSE [ th EXCEPT !.pos = @ + 1,
                                   !.n = IF th.pos = 0 THEN n_devices ELSE @ ] ]
           /\ IF th.op = "rift_tracker_add_device" /\ th.pos + 1 = Len(prog)
              THEN rift_tracker_add_device
              ELSE UNCHANGED tracker_vars

vars == << tracker_vars, history, uvc_vars, lock_vars, transfer_vars >>

Init == TrackerInit /\ UvcInit /\ history = NoHistory /\ LockInit /\ TransferInit

TrackerOnly == UNCHANGED << history, uvc_vars, lock_vars, transfer_vars >>

(***************************************************************************)
(* Specification of the delay slot table: every tracker handler, called in *)
(* any order by the HMD thread and the sensors.                            *)
(***************************************************************************)
\* Raw 32 bit microsecond timestamps the device reports.
DeviceTsInputs == { U32(700000) }
\* The HMD's exposure counters, exposure timestamp, LED phase; the host clock.
ExposureCounts == 0 .. MaxExposureCount
HmdTsInputs == { 10 }
LedPhases == { 0 }
NowInputs == { 5 }
\* Scores of the vision pipeline's reports.
ScoreInputs == { sc \in Scores : sc.orient }

\* The copies the sensors use: one stored per frame, and fresh ones.
SpecFrames == { 1 }
SpecSources == SpecFrames \cup { FreshCopy }

Next ==
    \/ n_devices < MaxAddedDevices /\ rift_tracker_add_device /\ TrackerOnly
    \/ \E d \in DeviceIds, ts \in DeviceTsInputs :
          /\ imu_count[d] < MaxImuUpdates
          /\ rift_tracked_device_imu_update(d, ts)
          /\ TrackerOnly
    \/ \E now \in NowInputs, c \in ExposureCounts, ets \in HmdTsInputs, ph \in LedPhases :
          rift_tracker_on_new_exposure(now, ets, c, ets, ph) /\ TrackerOnly
    \/ \E f \in SpecFrames : rift_tracker_get_exposure_info(f) /\ TrackerOnly
    \/ \E src \in SpecSources : rift_tracker_frame_start(src) /\ TrackerOnly
    \/ \E f \in SpecFrames : rift_tracker_frame_release(f) /\ TrackerOnly
    \/ \E fo \in SpecFrames, src \in SpecSources :
          rift_tracker_frame_changed_exposure(fo, src) /\ TrackerOnly
    \/ \E d \in DeviceIds, f \in SpecFrames :
          rift_tracked_device_frame_release(d, f) /\ TrackerOnly
    \/ \E d \in DeviceIds, f \in SpecFrames, score \in ScoreInputs :
          rift_tracked_device_model_pose_update(d, f, score) /\ TrackerOnly

Spec == Init /\ [][Next]_vars

(***************************************************************************)
(* Specification of the device clock: arbitrary raw timestamps, with one   *)
(* exposure and one frame going through every tracker handler.             *)
(***************************************************************************)
\* Raw timestamps: small, just below the 32 bit wrap, repeated, and more
\* than 2^32 ns (4294967 us) after the small one.
ClockTsInputs == { U32(256), U32_FFFFFF00, U32(5000256) }

ClockNext ==
    \/ n_devices < MaxAddedDevices /\ rift_tracker_add_device /\ TrackerOnly
    \/ \E d \in DeviceIds, ts \in ClockTsInputs :
          /\ imu_count[d] < MaxClockUpdates
          /\ rift_tracked_device_imu_update(d, ts)
          /\ TrackerOnly
    \/ \E now \in NowInputs, ets \in HmdTsInputs, ph \in LedPhases :
          rift_tracker_on_new_exposure(now, ets, 1, ets, ph) /\ TrackerOnly
    \/ \E f \in SpecFrames : rift_tracker_get_exposure_info(f) /\ TrackerOnly
    \/ \E f \in SpecFrames : rift_tracker_frame_start(f) /\ TrackerOnly
    \/ \E f \in SpecFrames : rift_tracker_frame_release(f) /\ TrackerOnly
    \/ \E f \in SpecFrames :
          rift_tracker_frame_changed_exposure(f, FreshCopy) /\ TrackerOnly
    \/ \E d \in DeviceIds, f \in SpecFrames :
          rift_tracked_device_frame_release(d, f) /\ TrackerOnly
    \/ \E d \in DeviceIds, f \in SpecFrames, score \in ScoreInputs :
          rift_tracked_device_model_pose_update(d, f, score) /\ TrackerOnly

ClockSpec == Init /\ [][ClockNext]_vars

(***************************************************************************)
(* Specification of the exposure handler: every argument varies.           *)
(***************************************************************************)
ExposureHmdTs == { 10, 20 }
ExposureLedPhases == { 0, 1 }
ExposureNow == { 5, 6 }

ExposureNext ==
    \/ n_devices < MaxAddedDevices /\ rift_tracker_add_device /\ TrackerOnly
    \/ \E d \in DeviceIds, ts \in DeviceTsInputs :
          /\ imu_count[d] < MaxImuUpdates
          /\ rift_tracked_device_imu_update(d, ts)
          /\ TrackerOnly
    \/ \E now \in ExposureNow, hts \in ExposureHmdTs, c \in ExposureCounts,
          ets \in ExposureHmdTs, ph \in ExposureLedPhases :
          rift_tracker_on_new_exposure(now, hts, c, ets, ph) /\ TrackerOnly
    \/ \E f \in SpecFrames : rift_tracker_get_exposure_info(f) /\ TrackerOnly
    \/ \E f \in SpecFrames : rift_tracker_frame_start(f) /\ TrackerOnly
    \/ \E f \in SpecFrames : rift_tracker_frame_release(f) /\ TrackerOnly

ExposureSpec == Init /\ [][ExposureNext]_vars

(***************************************************************************)
(* Specification of the stale copies: two frames hold copies of the        *)
(* exposure info across later exposures, and the history is recorded.      *)
(***************************************************************************)
CopiesFrames == FrameIds

\* The exposures whose slot a step brings from a raised use_count back to 0.
SpentNow ==
    { << p[1], history.owner[p[1]][p[2]] >> :
        p \in { q \in DeviceIds \X SlotIds :
                  /\ q[1] < n_devices
                  /\ devices[q[1]].delay_slots[q[2]].use_count > 0
                  /\ devices'[q[1]].delay_slots[q[2]].use_count = 0 } }

Released == history' = [ history EXCEPT !.spent = @ \cup SpentNow ]

CopiesNext ==
    \/ n_devices < MaxAddedDevices /\ rift_tracker_add_device /\ TrackerOnly
    \/ \E d \in DeviceIds, ts \in DeviceTsInputs :
          /\ imu_count[d] < MaxImuUpdates
          /\ rift_tracked_device_imu_update(d, ts)
          /\ TrackerOnly
    \/ \E now \in NowInputs, c \in ExposureCounts, ets \in HmdTsInputs, ph \in LedPhases :
          /\ history.seq < MaxExposures
          /\ rift_tracker_on_new_exposure(now, ets, c, ets, ph)
          /\ history' =
               IF exposure_info'.count # exposure_info.count
               THEN [ history EXCEPT
                        !.seq = @ + 1,
                        !.owner = [ d \in DeviceIds |-> [ s \in SlotIds |->
                            IF d < n_devices /\ exposure_info'.devices[d].fusion_slot = s
                            THEN history.seq + 1
                            ELSE history.owner[d][s] ] ] ]
               ELSE history
          /\ UNCHANGED << uvc_vars, lock_vars, transfer_vars >>
    \/ \E f \in CopiesFrames :
          /\ rift_tracker_get_exposure_info(f)
          /\ history' = [ history EXCEPT !.copy_of[f] = history.seq ]
          /\ UNCHANGED << uvc_vars, lock_vars, transfer_vars >>
    \/ \E f \in CopiesFrames :
          rift_tracker_frame_start(f) /\ TrackerOnly
    \/ \E f \in CopiesFrames :
          rift_tracker_frame_release(f) /\ Released /\ UNCHANGED << uvc_vars, lock_vars, transfer_vars >>
    \/ \E fo \in CopiesFrames, fn \in CopiesFrames :
          rift_tracker_frame_changed_exposure(fo, fn) /\ Released /\ UNCHANGED << uvc_vars, lock_vars, transfer_vars >>
    \/ \E d \in DeviceIds, f \in CopiesFrames :
          rift_tracked_device_frame_release(d, f) /\ Released /\ UNCHANGED << uvc_vars, lock_vars, transfer_vars >>

CopiesSpec == Init /\ [][CopiesNext]_vars

(***************************************************************************)
(* Specification of the late reports: a sensor keeps its copy of an        *)
(* exposure's info and reports a pose with it while further exposures      *)
(* take the slots in turn; the history is recorded.                        *)
(***************************************************************************)
\* The history after an exposure event: a changed exposure is the next of
\* the run and owns the slots it was given.
ExposureRecorded ==
    history' =
       IF exposure_info'.count # exposure_info.count
       THEN [ history EXCEPT
                !.seq = @ + 1,
                !.owner = [ d \in DeviceIds |-> [ s \in SlotIds |->
                    IF d < n_devices /\ exposure_info'.devices[d].fusion_slot = s
                    THEN history.seq + 1
                    ELSE history.owner[d][s] ] ] ]
       ELSE history

ReportNext ==
    \/ n_devices < MaxAddedDevices /\ rift_tracker_add_device /\ TrackerOnly
    \/ \E d \in DeviceIds, ts \in DeviceTsInputs :
          /\ imu_count[d] < MaxImuUpdates
          /\ rift_tracked_device_imu_update(d, ts)
          /\ TrackerOnly
    \/ \E now \in NowInputs, c \in ExposureCounts, ets \in HmdTsInputs, ph \in LedPhases :
          /\ history.seq < MaxExposures
          /\ rift_tracker_on_new_exposure(now, ets, c, ets, ph)
          /\ ExposureRecorded
          /\ UNCHANGED << uvc_vars, lock_vars, transfer_vars >>
    \/ \E f \in SpecFrames :
          /\ rift_tracker_get_exposure_info(f)
          /\ history' = [ history EXCEPT !.copy_of[f] = history.seq ]
          /\ UNCHANGED << uvc_vars, lock_vars, transfer_vars >>
    \/ \E d \in DeviceIds, f \in SpecFrames, score \in ScoreInputs :
          rift_tracked_device_model_pose_update(d, f, score) /\ TrackerOnly

ReportSpec == Init /\ [][ReportNext]_vars

(***************************************************************************)
(* Specification of the pose gates: reports with every score arrive for    *)
(* two frames' exposures while the device clock advances by intervals      *)
(* around the 100 ms and 500 ms thresholds, and the pose is queried.       *)
(***************************************************************************)
\* Raw timestamps (us): 100 ms, 150 ms, just below 500 ms, 500 ms.
PoseTsInputs == { U32(100000), U32(150000), U32(499999), U32(500000) }

\* The HMD's exposure counter, which goes up from one exposure to the next.
PoseExposureCounts == 1 .. MaxPoseExposures

PoseNext ==
    \/ n_devices < MaxAddedDevices /\ rift_tracker_add_device /\ TrackerOnly
    \/ \E d \in DeviceIds, ts \in PoseTsInputs :
          /\ imu_count[d] < MaxPoseImuUpdates
          /\ rift_tracked_device_imu_update(d, ts)
          /\ TrackerOnly
    \/ \E now \in NowInputs, c \in PoseExposureCounts, ets \in HmdTsInputs, ph \in LedPhases :
          /\ c > exposure_info.count
          /\ rift_tracker_on_new_exposure(now, ets, c, ets, ph)
          /\ TrackerOnly
    \/ \E f \in SpecFrames : rift_tracker_get_exposure_info(f) /\ TrackerOnly
    \/ \E d \in DeviceIds, src \in SpecSources, score \in Scores :
          rift_tracked_device_model_pose_update(d, src, score) /\ TrackerOnly
    \/ \E d \in DeviceIds : rift_tracked_device_get_view_pose(d) /\ TrackerOnly

PoseSpec == Init /\ [][PoseNext]_vars

(***************************************************************************)
(* Specification of the pending IMU observations: the first device gets    *)
(* IMU updates without end (its count of pending observations comes back   *)
(* to 0 at the capacity of the array), the other devices a few, while      *)
(* exposures arrive with a counter that goes up or stays.                  *)
(***************************************************************************)
PendingNext ==
    \/ rift_tracker_add_device /\ TrackerOnly
    \/ \E ts \in DeviceTsInputs :
          ImuUpdate(0, ts) /\ UNCHANGED imu_count /\ TrackerOnly
    \/ \E d \in DeviceIds \ { 0 }, ts \in DeviceTsInputs :
          /\ imu_count[d] < MaxImuUpdates
          /\ rift_tracked_device_imu_update(d, ts)
          /\ TrackerOnly
    \/ \E now \in NowInputs, c \in PoseExposureCounts, ets \in HmdTsInputs, ph \in LedPhases :
          /\ c >= exposure_info.count
          /\ rift_tracker_on_new_exposure(now, ets, c, ets, ph)
          /\ TrackerOnly

PendingSpec == Init /\ [][PendingNext]_vars

(***************************************************************************)
(* Specification of the matching: a sensor keeps one copy of the exposure  *)
(* info and claims, releases, reports poses and queries with it while      *)
(* exposures go on and the device clock moves.                             *)
(***************************************************************************)
MatchNext ==
    \/ n_devices < MaxAddedDevices /\ rift_tracker_add_device /\ TrackerOnly
    \/ \E d \in DeviceIds, ts \in DeviceTsInputs :
          /\ imu_count[d] < MaxImuUpdates
          /\ rift_tracked_device_imu_update(d, ts)
          /\ TrackerOnly
    \/ \E now \in NowInputs, c \in ExposureCounts, ets \in HmdTsInputs, ph \in LedPhases :
          rift_tracker_on_new_exposure(now, ets, c, ets, ph) /\ TrackerOnly
    \/ \E f \in SpecFrames : rift_tracker_get_exposure_info(f) /\ TrackerOnly
    \/ \E f \in SpecFrames : rift_tracker_frame_start(f) /\ TrackerOnly
    \/ \E d \in DeviceIds, f \in SpecFrames :
          rift_tracked_device_frame_release(d, f) /\ TrackerOnly
    \/ \E d \in DeviceIds, f \in SpecFrames, score \in ScoreInputs :
          rift_tracked_device_model_pose_update(d, f, score) /\ TrackerOnly
    \/ \E d \in DeviceIds, f \in SpecFrames :
          rift_tracked_device_get_latest_exposure_info_pose(d, f) /\ TrackerOnly

MatchSpec == Init /\ [][MatchNext]_vars

(***************************************************************************)
(* Specification of the locks: threads call the tracker's handlers         *)
(* concurrently and run them one lock operation at a time.                 *)
(***************************************************************************)
LockNext ==
    \/ \E t \in LockThreads, op \in LoopOps \cup TrackerOps \cup DeviceOps,
          arg \in DeviceIds :
          HandlerCall(t, op, arg) /\ UNCHANGED << history, uvc_vars, transfer_vars >>
    \/ \E t \in LockThreads :
          HandlerLockStep(t) /\ UNCHANGED << history, uvc_vars, transfer_vars >>

LockSpec == Init /\ [][LockNext]_vars

(***************************************************************************)
(* Specification of the frame assembler: payloads of any length, header    *)
(* and flag bits arrive on the USB thread while the consumer releases the  *)
(* frames it was handed.                                                   *)
(***************************************************************************)
\* Payload lengths: empty, shorter than the header, header only, and bodies
\* of 1, 2, 4 (a whole frame) and 5 bytes.
PayloadLens == { 0, 5, 12, 13, 14, 16, 17 }
HeaderLengths == { 2, 12 }
PtsInputs == { U32(1000), U32(1002) }
UbOutcomes == { "crash", "continue" }

UvcNext ==
    \/ \E len \in PayloadLens, hl \in HeaderLengths, info \in HeaderInfos,
          pts \in PtsInputs, ub \in UbOutcomes :
          /\ stream.frame_collected > 0 - MaxUnderrun
          /\ process_payload(len, hl, info, pts, ub)
          /\ UNCHANGED << tracker_vars, history, lock_vars, transfer_vars >>
    \/ \E frame \in UvcFrameIds :
          /\ rift_sensor_uvc_stream_release_frame(frame)
          /\ UNCHANGED << tracker_vars, history, lock_vars, transfer_vars >>

UvcSpec == Init /\ [][UvcNext]_vars

(***************************************************************************)
(* Specification of the stream setup: the tracker opens its sensors, of    *)
(* either supported kind or of an unknown one, and a setup may fail.       *)
(***************************************************************************)
SetupNext ==
    \E s \in SensorIds, pid \in ProductIds, fail \in SetupFailures :
        /\ rift_sensor_uvc_stream_setup(s, pid, fail)
        /\ UNCHANGED << tracker_vars, history, lock_vars >>

SetupSpec == Init /\ [][SetupNext]_vars

(***************************************************************************)
(* Specification of the transfers: the application stops and restarts the  *)
(* stream while the transfers complete and their callbacks run on the USB  *)
(* event thread.                                                           *)
(***************************************************************************)
\* Payloads of the one packet of a transfer: none, or two of the four bytes
\* of a frame of either parity.
TransferPayloadLens == { 0, 14 }
TransferHeaderInfos == { i \in HeaderInfos : ~ i.is_eof /\ ~ i.have_pts /\ ~ i.error }

OtherOnly == UNCHANGED << tracker_vars, history, lock_vars >>

EventThreadStep(t) ==
    \/ \E status \in TransferStatuses, len \in TransferPayloadLens, info \in TransferHeaderInfos :
          iso_transfer_cb(t, status, len, 12, info, NoPts, "continue") /\ OtherOnly
    \/ \E outcomes \in SubmitOutcomes : IsoTransferResubmit(t, outcomes) /\ OtherOnly

TransferNext ==
    \/ rift_sensor_uvc_stream_start /\ OtherOnly
    \/ \E ok \in BOOLEAN : StreamStartSubmit(ok) /\ OtherOnly
    \/ StreamStartReturn /\ OtherOnly
    \/ rift_sensor_uvc_stream_stop /\ OtherOnly
    \/ \E ok \in BOOLEAN : StreamStopAltSetting(ok) /\ OtherOnly
    \/ StreamStopWait /\ OtherOnly
    \/ \E t \in TransferIds : EventThreadStep(t)
    \/ \E f \in UvcFrameIds :
          /\ rift_sensor_uvc_stream_release_frame(f)
          /\ OtherOnly /\ UNCHANGED transfer_vars

TransferSpec == Init /\ [][TransferNext]_vars

\* The USB event thread keeps running: a transfer in flight completes and
\* its callback runs, a callback runs to its end, and the stop that waits
\* goes on when its loop test fails.
TransferFairness ==
    /\ \A t \in TransferIds : WF_vars(EventThreadStep(t))
    /\ WF_vars(StreamStopWait /\ OtherOnly)

TransferFairSpec == TransferSpec /\ TransferFairness

(***************************************************************************)
(* Properties of the delay slot table                                      *)
(***************************************************************************)
Slot(d, s) == devices[d].delay_slots[s]
Added == { d \in DeviceIds : d < n_devices }

\* The exposure handler ran with a changed count: only it writes the count.
NewExposureStep == exposure_info'.count # exposure_info.count

\* C1: at every moment no two valid delay slots of a device hold the same
\* device_time_ns.
C1_ValidSlotsHaveDistinctTimes ==
    \A d \in Added : \A s, t \in SlotIds :
        (s # t /\ Slot(d, s).valid /\ Slot(d, t).valid)
            => Slot(d, s).device_time_ns # Slot(d, t).device_time_ns

\* The info entry frame f holds for device d matches slot s.
FrameMatches(f, d, s) ==
    /\ d < frames[f].n_devices
    /\ get_matching_delay_slot(devices[d], frames[f].devices[d]) = s

\* A release hook runs with an info entry for device d that matches slot s.
MatchingRelease(d, s) ==
    \E f \in SpecFrames :
        /\ FrameMatches(f, d, s)
        /\ \/ rift_tracker_frame_release(f)
           \/ rift_tracked_device_frame_release(d, f)
           \/ \E src \in SpecSources : rift_tracker_frame_changed_exposure(f, src)

Freed(d, s) == Slot(d, s).valid /\ ~ Slot(d, s)'.valid
ReleaseCalled(d, s) ==
    \E i \in DOMAIN last'.calls :
        last'.calls[i] = FilterCall("release_delay_slot", d, s)

UnusedSlots(dev) == { s \in SlotIds : dev.delay_slots[s].use_count = 0 }
ReportedSlots(dev) ==
    { s \in SlotIds : dev.delay_slots[s].valid /\ dev.delay_slots[s].n_used_reports > 0 }
CursorDistance(dev, s) ==
    (s + NUM_POSE_DELAY_SLOTS - dev.delay_slot_index) % NUM_POSE_DELAY_SLOTS
SelectedSlot(dev) ==
    IF UnusedSlots(dev) # {}
    THEN CHOOSE s \in UnusedSlots(dev) :
            \A t \in UnusedSlots(dev) : CursorDistance(dev, s) <= CursorDistance(dev, t)
    ELSE IF ReportedSlots(dev) # {}
         THEN CHOOSE s \in ReportedSlots(dev) : \A t \in ReportedSlots(dev) : s <= t
         ELSE -1

\* C4: a new exposure gives each device the first slot with use_count 0
\* scanning round-robin from the cursor, else the lowest-indexed valid slot
\* with n_used_reports > 0, else no slot and fusion_slot -1; with all three
\* slots in use it obtains a slot exactly when some slot has n_used_reports > 0.
C4_SlotSelection ==
    [][ NewExposureStep =>
          \A d \in Added :
            LET dev == devices[d]
                got == exposure_info'.devices[d].fusion_slot
            IN  /\ got = SelectedSlot(dev)
                /\ (\A s \in SlotIds : dev.delay_slots[s].use_count > 0)
                      => (got # -1 <=> \E s \in SlotIds :
                                          dev.delay_slots[s].n_used_reports > 0) ]_vars

\* An exposure has just obtained its slot by reclamation.
C4_Witness ==
    \E d \in Added : \E s \in SlotIds :
        /\ last.log = << LogEntry("Reclaimed delay slot", d, s) >>
        /\ exposure_info.devices[d].fusion_slot = s

\* C5: allocation or reclamation changes only the selected slot, which
\* becomes valid with use_count 0, no reports and the exposure's device time;
\* every other slot is unchanged, and when no slot is obtained no slot changes.
C5_OnlySelectedSlotChanges ==
    [][ NewExposureStep =>
          \A d \in Added :
            LET got == exposure_info'.devices[d].fusion_slot
            IN  \A s \in SlotIds :
                  IF s = got
                  THEN Slot(d, s)' =
                         [ slot_id |-> s, valid |-> TRUE, use_count |-> 0,
                           device_time_ns |-> devices[d].device_time_ns,
                           n_pose_reports |-> 0, n_used_reports |-> 0 ]
                  ELSE Slot(d, s)' = Slot(d, s) ]_vars

\* A reclamation has just replaced one slot while the other two stay in use.
C5_Witness ==
    \E d \in Added : \E s \in SlotIds :
        /\ last.log = << LogEntry("Reclaimed delay slot", d, s) >>
        /\ Slot(d, s).valid /\ Slot(d, s).use_count = 0
        /\ Slot(d, s).n_used_reports = 0
        /\ \A t \in SlotIds \ { s } : Slot(d, t).valid /\ Slot(d, t).use_count > 0

\* C9: use_count is never negative.
C9_UseCountNonNegative ==
    \A d \in DeviceIds : \A s \in SlotIds : Slot(d, s).use_count >= 0

\* A release has run on a matching slot whose use_count was or became 0.
C9_Witness ==
    \E d \in Added : \E s \in SlotIds :
        /\ Slot(d, s).use_count = 0
        /\ ~ Slot(d, s).valid
        /\ \E i \in DOMAIN last.calls :
              last.calls[i].fn = "release_delay_slot" /\ last.calls[i].slot = s

(***************************************************************************)
(* Properties of the stale copies                                          *)
(***************************************************************************)
NoCallFor(d) == \A i \in DOMAIN last'.calls : last'.calls[i].dev # d

\* The slots of device d after only the claim half of a changed exposure.
ClaimOnly(d, fn) ==
    IF d < frames[fn].n_devices
    THEN rift_tracked_device_exposure_claim(devices[d], frames[fn].devices[d]).dev.delay_slots
    ELSE devices[d].delay_slots

\* C2: once the use_count of an exposure's slot has returned to 0, a further
\* release for that exposure with any copy of its info, by any of the three
\* release hooks and whatever exposures arrived in between, leaves every slot
\* of the device unchanged and makes no filter call.
C2_ReleaseOfSpentExposureDoesNothing ==
    [][ \A d \in Added : \A f \in CopiesFrames :
          (d < frames[f].n_devices /\ << d, history.copy_of[f] >> \in history.spent)
            => /\ (rift_tracker_frame_release(f) \/ rift_tracked_device_frame_release(d, f))
                    => (devices'[d].delay_slots = devices[d].delay_slots /\ NoCallFor(d))
               /\ \A fn \in CopiesFrames :
                    rift_tracker_frame_changed_exposure(f, fn)
                      => (devices'[d].delay_slots = ClaimOnly(d, fn) /\ NoCallFor(d)) ]_vars

\* The slots of device d the filter was given a correction for by the step.
Corrected(d) ==
    { last'.calls[k].slot : k \in { i \in DOMAIN last'.calls :
          /\ last'.calls[i].dev = d
          /\ last'.calls[i].fn \in { "pose_update", "position_update" } } }

\* C35: the filter gets a pose update or a position update for slot id s
\* only while slot s is valid and was prepared for the exposure the report
\* belongs to (the exposure the sensor's copy of the info was taken for); a
\* report whose exposure's slot has since been given to another exposure
\* does not reach the filter.
C35_CorrectionForOwnExposure ==
    [][ \A d \in Added, f \in SpecFrames, score \in ScoreInputs :
          rift_tracked_device_model_pose_update(d, f, score)
            => \A s \in Corrected(d) :
                  /\ s \in SlotIds
                  /\ Slot(d, s).valid
                  /\ history.copy_of[f] > 0
                  /\ history.owner[d][s] = history.copy_of[f] ]_vars

\* The step tells device d's filter to prepare delay slot s.
PrepareCalled(d, s) ==
    \E i \in DOMAIN last'.calls :
        last'.calls[i] = FilterCall("prepare_delay_slot", d, s)

\* C36: for every delay slot of a device's filter, prepare and release
\* alternate: the filter is never told to prepare a slot id that is still
\* prepared (valid) with no release in between, and is never told to release
\* a slot that is not prepared.
C36_PrepareReleaseAlternate ==
    [][ \A d \in Added : \A s \in SlotIds :
          /\ PrepareCalled(d, s) => ~ Slot(d, s).valid
          /\ ReleaseCalled(d, s) => Slot(d, s).valid ]_vars

(***************************************************************************)
(* Properties of the exposure handler                                      *)
(***************************************************************************)
\* The handler runs with the stored exposure count and LED phase ph.
SameCountCall(ph) ==
    \E now \in ExposureNow, hts \in ExposureHmdTs, ets \in ExposureHmdTs :
        rift_tracker_on_new_exposure(now, hts, exposure_info.count, ets, ph)

Quiet == last'.calls = << >> /\ ~ last'.notified

ExposureCall ==
    \E now \in ExposureNow, hts \in ExposureHmdTs, c \in ExposureCounts,
       ets \in ExposureHmdTs, ph \in ExposureLedPhases :
        rift_tracker_on_new_exposure(now, hts, c, ets, ph)

\* C39: the first exposure event a new tracker gets publishes exposure
\* info whatever its exposure_count is, 0 included: after any call of
\* rift_tracker_on_new_exposure, rift_tracker_get_exposure_info returns
\* true (have_exposure_info), and the call that finds nothing published yet
\* asks every existing device for a delay slot.
C39_FirstExposurePublishes ==
    [][ ExposureCall
          => /\ have_exposure_info'
             /\ ~ have_exposure_info
                  => \A d \in Added : \E s \in SlotIds : PrepareCalled(d, s) ]_vars

(***************************************************************************)
(* Properties of the device clock                                          *)
(***************************************************************************)
\* a * k in 64 bits, for a 32 bit a.
MulWide(a, k) ==
    LET p0 == a[1] * k
        p1 == a[2] * k + (p0 \div W16)
        c == p1 \div W16
    IN  << p0 % W16, p1 % W16, c % W16, c \div W16 >>

ImuStep(d) == \E ts \in ClockTsInputs : rift_tracked_device_imu_update(d, ts)

\* C7: between two consecutive IMU updates with raw timestamps last and new,
\* device_time_ns advances by exactly ((new - last) mod 2^32) * 1000 ns, for
\* every size of interval.
C7_ClockAdvancesByExactInterval ==
    [][ \A d \in Added :
          (ImuStep(d) /\ imu_count[d] > 0)
            => devices'[d].device_time_ns =
                 Add64(devices[d].device_time_ns,
                       MulWide(Sub32(devices'[d].last_device_ts,
                                     devices[d].last_device_ts), 1000)) ]_vars

\* C8: device_time_ns never decreases, and only an IMU update changes it.
C8_ClockMonotonic ==
    [][ \A d \in DeviceIds :
          /\ Le64(devices[d].device_time_ns, devices'[d].device_time_ns)
          /\ devices'[d].device_time_ns # devices[d].device_time_ns
                => ImuStep(d) ]_vars

\* The raw timestamp has wrapped from 0xFFFFFF00 to 0x00000100 and the clock
\* has gone 512000 ns forward.
C8_Witness ==
    \E d \in Added :
        /\ imu_count[d] = 2
        /\ devices[d].last_device_ts = U32(256)
        /\ devices[d].device_time_ns =
             Add64(Widen(Mul32(U32_FFFFFF00, 1000)), U64(512000))

(***************************************************************************)
(* Properties of the frame assembler                                       *)
(***************************************************************************)
\* C10: 0 <= frame_collected <= frame_size after every payload.
C10_CollectedWithinFrame ==
    /\ 0 <= stream.frame_collected
    /\ stream.frame_collected <= stream.frame_size

\* C38: the number of bytes a payload appends is never negative: a step
\* changes frame_collected only by adding a body length >= 0 or by setting
\* it to 0, and a payload with 0 < len < 12, shorter than the header it
\* declares, copies nothing into the frame (no memcpy with a negative
\* length, frame_collected not lowered).
C38_AppendedBytesNonNegative ==
    [][ /\ \/ stream'.frame_collected = 0
           \/ stream'.frame_collected >= stream.frame_collected
        /\ \A len \in PayloadLens, hl \in HeaderLengths, info \in HeaderInfos,
              pts \in PtsInputs, ub \in UbOutcomes :
              (0 < len /\ len < 12 /\ process_payload(len, hl, info, pts, ub))
                 => /\ ~ uvc_last'.crashed
                    /\ stream'.frame_collected \in { 0, stream.frame_collected } ]_vars

\* The frames in the live part of the free list.
FreeFrames == { stream.free_frames[i] : i \in 0 .. (stream.n_free_frames - 1) }

\* The places a frame of the pool is in.
PlacesOf(f) ==
    (IF f \in FreeFrames THEN { "free" } ELSE {})
      \cup (IF stream.cur_frame = f THEN { "cur_frame" } ELSE {})
      \cup (IF f \in held THEN { "consumer" } ELSE {})

FramesInOnePlace ==
    /\ stream.n_free_frames >= 0
    /\ stream.n_free_frames <= stream.n_alloced_frames
    /\ Cardinality(FreeFrames) = stream.n_free_frames
    /\ \A f \in UvcFrameIds : Cardinality(PlacesOf(f)) = 1

\* C11: while the stream runs, every frame of the pool is in exactly one
\* place (the free list, cur_frame, or the consumer's hands after a frame
\* callback), so n_free_frames <= n_alloced_frames, and a frame handed to the
\* callback was not held by the consumer, under every interleaving of
\* payloads and releases.
C11_FrameInOnePlace ==
    [][ /\ FramesInOnePlace'
        /\ uvc_last'.cb # NoFrame => uvc_last'.cb \notin held ]_vars

\* One frame is with the consumer, the other is being filled, and the free
\* list is empty.
C11_Witness ==
    /\ held # {}
    /\ stream.cur_frame # NoFrame
    /\ stream.n_free_frames = 0
    /\ stream.frame_collected > 0

\* The payloads process_payload is to ignore: empty, header only, a header
\* length other than 12, or the error bit.
Ignorable(len, bHeaderLength, info) ==
    len = 0 \/ len = 12 \/ bHeaderLength # 12 \/ info.error

\* C14: in every state of the stream, a payload that is empty, header only,
\* has bHeaderLength # 12 or carries the error bit leaves frame_id, cur_pts,
\* frame_collected, skip_frame, cur_frame and the free list as they are and
\* hands no frame to the callback, whatever its other header bits.
C14_IgnoredPayloadChangesNothing ==
    \A len \in PayloadLens, hl \in HeaderLengths, info \in HeaderInfos,
       pts \in PtsInputs, ub \in UbOutcomes :
        Ignorable(len, hl, info) =>
            LET r == ProcessPayload(stream, len, hl, info, pts, ub)
            IN  r.st = stream /\ r.cb = NoFrame /\ ~ r.crashed

\* A payload with the error bit has just been refused in the middle of a
\* frame.
C14_Witness ==
    /\ uvc_last.log = << "UVC frame error" >>
    /\ stream.cur_frame # NoFrame
    /\ stream.frame_collected > 0

\* The stream is as rift_sensor_uvc_stream_start left it: no frame has been
\* started yet.
AtStreamStart ==
    /\ stream.frame_id = 0 /\ stream.cur_pts = Zero32
    /\ stream.cur_frame = NoFrame /\ stream.frame_collected = 0
    /\ stream.n_free_frames = stream.n_alloced_frames /\ held = {}

\* The stream is between two frames and a free frame is available: at stream
\* start, where a run of either parity may follow, or after a frame, where
\* the next run has the opposite parity.
CleanRunCanStart(parity) ==
    /\ stream.cur_frame = NoFrame
    /\ stream.frame_collected = 0
    /\ stream.n_free_frames > 0
    /\ AtStreamStart \/ parity # stream.frame_id

\* Headers of the payloads of a clean run of one parity: no error bit.
CleanHeaders(parity) ==
    { info \in HeaderInfos : info.frame_id = parity /\ ~ info.error }

Delivered(cb, st) ==
    cb # NoFrame /\ st.cur_frame = NoFrame /\ st.frame_collected = 0

\* C15: with a free frame available, a run of error-free payloads of one
\* parity whose bodies total exactly frame_size, starting at stream start or
\* at a frame boundary, produces exactly one frame callback, after which
\* cur_frame is null and frame_collected is 0.  The runs checked are one
\* payload with a body of frame_size bytes, and two payloads with bodies of
\* half a frame each.
C15_CleanRunDeliversOneFrame ==
    [][ \A parity \in { 0, 1 } :
          CleanRunCanStart(parity) =>
            \A info \in CleanHeaders(parity), pts \in PtsInputs, ub \in UbOutcomes :
              /\ process_payload(12 + UvcFrameSize, 12, info, pts, ub)
                    => Delivered(uvc_last'.cb, stream')
              /\ (~ info.is_eof /\ process_payload(12 + UvcFrameSize \div 2, 12, info, pts, ub))
                    => /\ uvc_last'.cb = NoFrame
                       /\ \A info2 \in CleanHeaders(parity) :
                            LET r == ProcessPayload(stream', 12 + UvcFrameSize \div 2, 12,
                                                    info2, pts, ub)
                            IN  Delivered(r.cb, r.st) ]_vars

Contains(log, msg) == \E i \in 1 .. Len(log) : log[i] = msg

\* C16: a payload of the other parity that arrives while 0 < frame_collected
\* < frame_size drops the partial frame ("UVC Dropping short frame") without
\* a callback for it and starts the new frame from 0: the stream and the
\* callback are what they would be had no byte of the dropped frame been
\* collected, and a frame is delivered by that payload only if its own body
\* is a whole frame.
C16_ShortFrameDropped ==
    (0 < stream.frame_collected /\ stream.frame_collected < stream.frame_size) =>
      \A len \in PayloadLens, hl \in HeaderLengths, info \in HeaderInfos,
         pts \in PtsInputs, ub \in UbOutcomes :
        (~ Ignorable(len, hl, info) /\ info.frame_id # stream.frame_id) =>
            LET r == ProcessPayload(stream, len, hl, info, pts, ub)
                r0 == ProcessPayload([ stream EXCEPT !.frame_collected = 0 ],
                                     len, hl, info, pts, ub)
            IN  /\ Contains(r.log, "UVC Dropping short frame")
                /\ r.st = r0.st /\ r.cb = r0.cb
                /\ r.cb # NoFrame => len - hl = stream.frame_size

\* A partial frame has just been dropped and the payload that dropped it is
\* the only one counted in the new frame.
C16_Witness ==
    /\ Contains(uvc_last.log, "UVC Dropping short frame")
    /\ uvc_last.cb = NoFrame
    /\ stream.frame_collected = 1

\* C27: in every state of the stream, after a payload that passes the header
\* checks (bHeaderLength 12, no error bit, length neither 0 nor 12) and has
\* the EOF bit, frame_collected is 0, also while a frame is skipped and on
\* a buffer overflow.
C27_EofResetsCollected ==
    \A len \in PayloadLens, hl \in HeaderLengths, info \in HeaderInfos,
       pts \in PtsInputs, ub \in UbOutcomes :
        (~ Ignorable(len, hl, info) /\ info.is_eof) =>
            LET r == ProcessPayload(stream, len, hl, info, pts, ub)
            IN  r.crashed \/ r.st.frame_collected = 0

\* C28: a camera frame that starts with no current frame and an empty free
\* list sets skip_frame and leaves cur_frame null; while skip_frame is set
\* every payload of that camera frame (same parity) is discarded, with
\* frame_collected staying 0 and no frame callback; at the next parity
\* toggle a frame is taken if one has been released, and the frame is
\* skipped again if none has; and in every state skip_frame implies
\* cur_frame = null.
C28_PoolUnderflowSkipsFrame ==
    /\ stream.skip_frame => (stream.cur_frame = NoFrame /\ stream.frame_collected = 0)
    /\ \A len \in PayloadLens, hl \in HeaderLengths, info \in HeaderInfos,
          pts \in PtsInputs, ub \in UbOutcomes :
          ~ Ignorable(len, hl, info) =>
            LET r == ProcessPayload(stream, len, hl, info, pts, ub)
                toggle == info.frame_id # stream.frame_id
            IN  /\ (toggle /\ stream.cur_frame = NoFrame /\ stream.n_free_frames = 0)
                      => /\ r.st.skip_frame
                         /\ r.st.cur_frame = NoFrame
                         /\ r.st.frame_collected = 0
                         /\ r.cb = NoFrame
                         /\ r.st.n_free_frames = 0
                /\ (stream.skip_frame /\ ~ toggle)
                      => /\ r.st = stream
                         /\ r.cb = NoFrame
                         /\ ~ r.crashed
                /\ (stream.skip_frame /\ toggle /\ stream.n_free_frames > 0)
                      => /\ ~ r.st.skip_frame
                         /\ r.cb # NoFrame \/ r.st.cur_frame # NoFrame
                         /\ r.st.n_free_frames = stream.n_free_frames - 1

\* A camera frame is being skipped: every frame of the pool is with the
\* consumer, and the payload that started the camera frame found none.
C28_Witness ==
    /\ stream.skip_frame
    /\ stream.n_free_frames = 0
    /\ held = UvcFrameIds
    /\ Contains(uvc_last.log, "No frame provided for pixel data. Skipping frame")

\* The last payload was rejected for a header error or a buffer overflow.
PayloadRejected ==
    \/ Contains(uvc_last.log, "UVC frame error")
    \/ Contains(uvc_last.log, "invalid header")
    \/ Contains(uvc_last.log, "UVC frame buffer overflow")

\* C29: a camera frame during whose assembly a payload was rejected for a
\* header error or a buffer overflow is not handed to the frame callback.
\* Seen at the payload that follows the rejected one: if it belongs to the
\* same camera frame (no parity toggle), it does not deliver the frame that
\* was in progress when the payload was rejected.
C29_RejectedPayloadDropsFrame ==
    [][ (PayloadRejected /\ stream.cur_frame # NoFrame
           /\ stream'.frame_id = stream.frame_id)
          => uvc_last'.cb # stream.cur_frame ]_vars

(***************************************************************************)
(* Properties of the pose gates                                            *)
(***************************************************************************)
\* The slot of device d an exposure info entry matches, as the set of its
\* indices (empty: no match).
MatchedSlots(d, dev_info) ==
    { i \in SlotIds : /\ dev_info.fusion_slot = i
                      /\ Slot(d, i).valid
                      /\ Slot(d, i).device_time_ns = dev_info.device_time_ns }

\* The slot a report of device d made with the copy src matches (-1: none).
ReportSlot(d, src) ==
    IF d < InfoOf(src).n_devices
    THEN get_matching_delay_slot(devices[d], InfoOf(src).devices[d])
    ELSE -1

\* The report's position is to be rejected: the exposure had a pose lock,
\* the score lacks MATCH_POSITION, and an observation newer than the frame
\* has been applied.
PositionRejected(d, src, score) ==
    /\ InfoOf(src).devices[d].had_pose_lock
    /\ ~ score.pos
    /\ Lt64(InfoOf(src).devices[d].device_time_ns, devices[d].last_observed_pose_ts)

\* What a report of device d does to its matching slot s and to the filter.
\* recorded says whether the report is to be counted in the slot.
PositionGateEffect(d, s, rejected, recorded) ==
    /\ rejected => /\ last'.calls = << >>
                   /\ devices'[d].last_observed_pose_ts = devices[d].last_observed_pose_ts
    /\ ~ rejected => /\ Len(last'.calls) = 1
                     /\ last'.calls[1].slot = Slot(d, s).slot_id
                     /\ devices'[d].last_observed_pose_ts = devices[d].device_time_ns
    /\ recorded =>
          /\ devices'[d].delay_slots[s].n_pose_reports = Slot(d, s).n_pose_reports + 1
          /\ devices'[d].delay_slots[s].n_used_reports =
                Slot(d, s).n_used_reports + (IF rejected THEN 0 ELSE 1)
    /\ ~ recorded => devices'[d].delay_slots[s] = Slot(d, s)

\* C17 as stated: with a matching slot, the position is rejected exactly when
\* had_pose_lock holds, the score lacks MATCH_POSITION and
\* last_observed_pose_ts is later than the frame's device_time_ns; a
\* rejected report makes no filter call and leaves last_observed_pose_ts
\* alone, but is always counted in the slot (n_pose_reports + 1,
\* n_used_reports unchanged).
C17_PositionGateAlwaysRecorded ==
    [][ \A d \in Added, src \in SpecSources, score \in Scores :
          (ReportSlot(d, src) # -1 /\ rift_tracked_device_model_pose_update(d, src, score))
            => PositionGateEffect(d, ReportSlot(d, src),
                  PositionRejected(d, src, score),
                  \/ PositionRejected(d, src, score)
                  \/ Slot(d, ReportSlot(d, src)).n_pose_reports < RIFT_MAX_SENSORS) ]_vars

\* C17, amended: the same gate; the report is counted in the slot when the
\* slot has fewer than RIFT_MAX_SENSORS reports, and leaves a full slot as
\* it is.
C17_PositionGate ==
    [][ \A d \in Added, src \in SpecSources, score \in Scores :
          (ReportSlot(d, src) # -1 /\ rift_tracked_device_model_pose_update(d, src, score))
            => PositionGateEffect(d, ReportSlot(d, src),
                  PositionRejected(d, src, score),
                  Slot(d, ReportSlot(d, src)).n_pose_reports < RIFT_MAX_SENSORS) ]_vars

\* A report was rejected and counted: the slot has one report, none used, and
\* an observation newer than the slot's exposure has been applied.
C17_Witness ==
    \E d \in Added, s \in SlotIds :
        /\ Slot(d, s).valid
        /\ Slot(d, s).n_pose_reports = 1
        /\ Slot(d, s).n_used_reports = 0
        /\ Lt64(Slot(d, s).device_time_ns, devices[d].last_observed_pose_ts)
        /\ last.calls = << >>

\* The values a pose query of device d has just returned.
ViewPoseReturned(d) ==
    last'.out.fn = "get_view_pose" /\ last'.out.dev = d /\ last' # last

\* 500 ms or more of device time have passed since the last position
\* observation.
LostFor500ms(d) ==
    Le64(U64(500 * 1000000),
         Sub64(devices[d].device_time_ns, devices[d].last_observed_pose_ts))

NoOrientMatchFor100ms(d) ==
    Lt64(U64(100 * 1000000),
         Sub64(devices[d].device_time_ns, devices[d].last_observed_orient_ts))

\* C19: with a matching slot, the orientation of a report is accepted exactly
\* when the score carries MATCH_ORIENT or more than 100 ms of device time
\* have passed since the last orientation match (last_observed_orient_ts).
\* Seen where the position is accepted too: the filter then gets a pose
\* update if the orientation is accepted and a position update if not.
C19_OrientationGate ==
    [][ \A d \in Added, src \in SpecSources, score \in Scores :
          ( /\ ReportSlot(d, src) # -1
            /\ ~ PositionRejected(d, src, score)
            /\ rift_tracked_device_model_pose_update(d, src, score) )
            => /\ Len(last'.calls) = 1
               /\ last'.calls[1].fn = "pose_update"
                     <=> (score.orient \/ NoOrientMatchFor100ms(d)) ]_vars

\* The report's orientation is accepted: the score carries MATCH_ORIENT, or
\* the code's timer (time since the last applied observation) has passed
\* 100 ms.
OrientationAccepted(d, score) ==
    \/ score.orient
    \/ Lt64(U64(100 * 1000000),
            Sub64(devices[d].device_time_ns, devices[d].last_observed_pose_ts))

\* The names of the filter functions the step called.
FilterFnsCalled == { last'.calls[k].fn : k \in DOMAIN last'.calls }

\* C24: with a matching slot the filter gets a pose update exactly when
\* position and orientation are both accepted, a position update exactly
\* when the position is accepted and the orientation is not, and no call
\* exactly when the position is rejected; every call carries the matching
\* slot's slot_id.
C24_FilterInvocation ==
    [][ \A d \in Added, src \in SpecSources, score \in Scores :
          (ReportSlot(d, src) # -1 /\ rift_tracked_device_model_pose_update(d, src, score))
            => LET pos == ~ PositionRejected(d, src, score)
                   ori == OrientationAccepted(d, score)
               IN  /\ "pose_update" \in FilterFnsCalled <=> (pos /\ ori)
                   /\ "position_update" \in FilterFnsCalled <=> (pos /\ ~ ori)
                   /\ last'.calls = << >> <=> ~ pos
                   /\ FilterFnsCalled \subseteq { "pose_update", "position_update" }
                   /\ \A k \in DOMAIN last'.calls :
                         /\ last'.calls[k].dev = d
                         /\ last'.calls[k].slot = Slot(d, ReportSlot(d, src)).slot_id ]_vars

\* A report whose position was accepted and whose orientation was not has
\* been given to the filter as a position update for its slot.
C24_Witness ==
    \E d \in Added, s \in SlotIds :
        /\ Slot(d, s).valid
        /\ Slot(d, s).n_used_reports > 0
        /\ last.calls = << FilterCall("position_update", d, Slot(d, s).slot_id) >>

\* C25: a pose update sets last_observed_pose_ts (to the device time) exactly
\* when the position is accepted; last_observed_orient_ts changes only in a
\* call that gives the filter position and orientation; a pose update that
\* makes no filter call changes neither time.
C25_ObservedTimes ==
    [][ \A d \in Added, src \in SpecSources, score \in Scores :
          rift_tracked_device_model_pose_update(d, src, score)
            => LET pos == ReportSlot(d, src) # -1 /\ ~ PositionRejected(d, src, score)
               IN  /\ devices'[d].last_observed_pose_ts =
                         IF pos THEN devices[d].device_time_ns
                         ELSE devices[d].last_observed_pose_ts
                   /\ devices'[d].last_observed_orient_ts # devices[d].last_observed_orient_ts
                         => /\ "pose_update" \in FilterFnsCalled
                            /\ devices'[d].last_observed_orient_ts = devices[d].device_time_ns
                   /\ last'.calls = << >>
                         => /\ devices'[d].last_observed_pose_ts = devices[d].last_observed_pose_ts
                            /\ devices'[d].last_observed_orient_ts =
                                  devices[d].last_observed_orient_ts ]_vars

\* A pose update has given the filter position and orientation and both
\* times are the device time, while a later exposure's slot has no report.
C25_Witness ==
    \E d \in Added :
        /\ Len(last.calls) = 1
        /\ last.calls[1].fn = "pose_update"
        /\ last.calls[1].dev = d
        /\ devices[d].last_observed_pose_ts = devices[d].device_time_ns
        /\ devices[d].last_observed_orient_ts = devices[d].device_time_ns
        /\ devices[d].device_time_ns # U64(0)

\* The exposure info of the copy src has no matching slot for device d: the
\* device has no entry in it, or the entry's slot is none of the device's
\* valid slots for the entry's device time.
NoMatchingSlot(d, src) ==
    \/ ~ (d < InfoOf(src).n_devices)
    \/ MatchedSlots(d, InfoOf(src).devices[d]) = {}

ReportedAtDeviceTime(d) ==
    ~ Lt64(devices[d].last_reported_pose, devices[d].device_time_ns)

\* C31: the output filter runs at most once per device_time_ns.  A pose
\* query leaves the pose reported for the device time and returns
\* reported_pose; until the device time changes (an IMU update) nothing
\* changes reported_pose or last_reported_pose; and a query made while the
\* pose is reported for the device time does not run the output filter,
\* leaves reported_pose and last_reported_pose as they are and returns
\* reported_pose, the pose the previous query returned.
C31_OutputFilterOncePerDeviceTime ==
    [][ \A d \in Added :
          LET r == GetViewPose(d, devices[d])
          IN  /\ ReportedAtDeviceTime(d)
                    => /\ ~ r.out.filtered
                       /\ r.dev = devices[d]
                       /\ r.out.pose = devices[d].reported_pose
              /\ r.out.filtered => ~ ReportedAtDeviceTime(d)
              /\ rift_tracked_device_get_view_pose(d)
                    => /\ ReportedAtDeviceTime(d)'
                       /\ last'.out.pose = devices'[d].reported_pose
              /\ devices'[d].device_time_ns = devices[d].device_time_ns
                    => \/ rift_tracked_device_get_view_pose(d)
                       \/ /\ devices'[d].reported_pose = devices[d].reported_pose
                          /\ devices'[d].last_reported_pose = devices[d].last_reported_pose ]_vars

\* A query has been answered without the output filter for a device whose
\* clock runs and whose pose had been reported for this device time.
C31_Witness ==
    \E d \in Added :
        /\ last.out.fn = "get_view_pose"
        /\ last.out.dev = d
        /\ ~ last.out.filtered
        /\ devices[d].device_time_ns # Zero64
        /\ devices[d].last_reported_pose = devices[d].device_time_ns
        /\ last.out.pose = devices[d].reported_pose

\* C34: in every state a delay slot with use_count > 0 is valid: a slot is
\* not claimed while invalid and not invalidated while it is claimed.
C34_ClaimedSlotIsValid ==
    \A d \in DeviceIds, s \in SlotIds : Slot(d, s).use_count > 0 => Slot(d, s).valid

\* A valid slot is claimed by two frames at once.
C34_Witness ==
    \E d \in Added, s \in SlotIds :
        /\ Slot(d, s).use_count = MaxUseCount
        /\ Slot(d, s).valid
        /\ Len(last.calls) = 0
        /\ have_exposure_info

(***************************************************************************)
(* Properties of the pending IMU observations                              *)
(***************************************************************************)
Pending(d) == devices[d].num_pending_imu_observations

\* Between operations the count is an index into the array of
\* RIFT_MAX_PENDING_IMU_OBSERVATIONS entries.
PendingBounded ==
    \A d \in DeviceIds :
        0 <= Pending(d) /\ Pending(d) <= RIFT_MAX_PENDING_IMU_OBSERVATIONS - 1

\* C32: between operations 0 <= num_pending_imu_observations <= 999, so an
\* IMU update writes its observation inside the array; an IMU update raises
\* the count by one and brings it to 0 when it reaches 1000; and an
\* exposure event that changes the exposure count brings the count of every
\* device to 0.
C32_PendingObservationsBounded ==
    /\ [] PendingBounded
    /\ [][ /\ \A d \in Added, ts \in DeviceTsInputs :
                ImuUpdate(d, ts)
                  => /\ Pending(d) < RIFT_MAX_PENDING_IMU_OBSERVATIONS
                     /\ Pending(d)' =
                           IF Pending(d) + 1 = RIFT_MAX_PENDING_IMU_OBSERVATIONS
                           THEN 0 ELSE Pending(d) + 1
           /\ exposure_info'.count # exposure_info.count
                => \A d \in Added : Pending(d)' = 0 ]_vars

\* The IMU update that has just run filled the last entry of the array, and
\* the count is back at 0.
C32_Witness ==
    /\ 0 \in Added
    /\ last.calls = << FilterCall("imu_update", 0, -1) >>
    /\ Pending(0) = 0

(***************************************************************************)
(* Properties of the locks                                                 *)
(***************************************************************************)
DeviceLocksHeld(t) == { d \in DeviceIds : locks.device_lock[d] = t }

\* The thread is inside a handler, at an ohmd_lock_mutex of a held mutex.
Blocked(t) ==
    /\ threads[t].op # "idle"
    /\ NextLockOp(t).act = "lock"
    /\ Owner(NextLockOp(t).lock) # NoThread

\* Following who holds the mutex a blocked thread waits for, a thread that
\* can run is reached within k threads.
RECURSIVE ReachesRunning(_, _)
ReachesRunning(t, k) ==
    \/ ~ Blocked(t)
    \/ k > 0 /\ ReachesRunning(Owner(NextLockOp(t).lock), k - 1)

NoDeadlock == \A t \in LockThreads : ReachesRunning(t, MaxLockThreads)

\* C20: no thread takes tracker_lock while it holds a device_lock, no thread
\* holds two device_locks at once, and so no thread of concurrent tracker
\* handler calls ever waits in a cycle: every blocked thread waits, directly
\* or through other blocked threads, for a thread that can run.
C20_LockOrderNoDeadlock ==
    [][ /\ \A t \in LockThreads :
              (locks'.tracker_lock = t /\ locks.tracker_lock # t)
                  => DeviceLocksHeld(t) = {}
        /\ \A t \in LockThreads : Cardinality(DeviceLocksHeld(t)') <= 1
        /\ NoDeadlock' ]_vars

\* With two devices added, one thread holds tracker_lock and waits for a
\* device_lock another thread holds, while a third waits for tracker_lock.
C20_Witness ==
    /\ n_devices = 2
    /\ \E t1, t2, t3 \in LockThreads :
          /\ locks.tracker_lock = t1 /\ Blocked(t1)
          /\ NextLockOp(t1).lock = 1 /\ locks.device_lock[1] = t2
          /\ Blocked(t3) /\ NextLockOp(t3).lock = TrackerLock

(***************************************************************************)
(* Properties of the transfers                                             *)
(***************************************************************************)
\* C12: whenever rift_sensor_uvc_stream_stop has returned, on any path
\* through it (its error paths and a stop called by a failed stream start
\* included), active_transfers is 0.
C12_StopReturnsWithNoActiveTransfers ==
    app.stop_returned => active_transfers = 0

\* A step that submits a transfer again, and one that raises the count.
Resubmitted == \E t \in TransferIds : transfer[t] = "in_cb" /\ transfer'[t] = "in_flight"
CountRaised == active_transfers' > active_transfers

StopWaiting == app.pc = "stop_wait" /\ ~ video_running
StopTerminated == app.pc = "idle" /\ app.stop_returned /\ active_transfers = 0

\* C13: once video_running is false no transfer is resubmitted and
\* active_transfers does not increase, and, when the USB event thread keeps
\* running and every transfer in flight completes, the stream stop that
\* waits sees active_transfers reach 0 and returns.
C13_DrainsAfterStop ==
    /\ [][~ video_running => (~ Resubmitted /\ ~ CountRaised)]_vars
    /\ StopWaiting ~> StopTerminated

\* What the resubmission loop of transfer t's callback does with the given
\* outcomes of libusb_submit_transfer: at most SubmitAttempts calls; a
\* success puts the transfer in flight and leaves the count; five failures
\* retire it and lower the count by one; the other transfers stay as they
\* are.
RetryThenRetire(t, outcomes) ==
    LET succeeds == \E k \in 1 .. SubmitAttempts : outcomes[k]
    IN  /\ resubmitted'.attempts >= 1
        /\ resubmitted'.attempts <= SubmitAttempts
        /\ \A k \in 1 .. SubmitAttempts :
              (outcomes[k] /\ \A j \in 1 .. (k - 1) : ~ outcomes[j])
                 => resubmitted'.attempts = k
        /\ succeeds => /\ transfer'[t] = "in_flight"
                       /\ active_transfers' = active_transfers
        /\ ~ succeeds => /\ transfer'[t] = "idle"
                         /\ resubmitted'.attempts = SubmitAttempts
                         /\ active_transfers' = active_transfers - 1
        /\ \A u \in TransferIds \ { t } : transfer'[u] = transfer[u]
        /\ video_running' = video_running

\* A step that retires transfer t.
Retired(t) == transfer[t] \in { "in_flight", "in_cb" } /\ transfer'[t] = "idle"

RetryAndRetireSteps ==
    [][ \A t \in TransferIds :
          /\ \A outcomes \in SubmitOutcomes :
                IsoTransferResubmit(t, outcomes) => RetryThenRetire(t, outcomes)
          /\ Retired(t) => active_transfers' = active_transfers - 1 ]_vars

\* C30: the resubmission of a completed transfer is tried at most 5 times;
\* a success leaves active_transfers as it is; after 5 failures the transfer
\* is retired and active_transfers lowered by one while the other transfers
\* go on; every retirement (status other than completed, stream not
\* running, resubmission given up) lowers active_transfers by exactly one;
\* and active_transfers is never below 0.
C30_RetryAndRetire == RetryAndRetireSteps /\ [](active_transfers >= 0)

\* The transfers that are submitted and not yet retired.
Submitted == { t \in TransferIds : transfer[t] \in { "in_flight", "in_cb" } }

\* C37: active_transfers is the number of isochronous transfers submitted
\* and not yet retired, however the callbacks of the USB event thread
\* interleave with rift_sensor_uvc_stream_start, callbacks that run before
\* start has submitted every transfer included.  (Stated for the moments
\* when start is not inside its submit loop, where it has not written the
\* count yet.)
C37_CountIsSubmittedTransfers ==
    app.pc # "submit" => active_transfers = Cardinality(Submitted)

\* C33: for the DK2 sensor (frame 752 x 480, packet_size 3060) and the CV1
\* sensor (frame 1280 x 960, packet_size 16384), the layout stream setup
\* computes has num_transfers * num_packets * packet_size >= frame_size and
\* at most 32 packets per transfer.
C33_TransfersCoverFrame ==
    \A s \in SensorIds :
        (setup[s].done /\ setup[s].frame_size > 0) =>
            /\ setup[s].num_transfers * setup[s].num_packets * setup[s].packet_size
                  >= setup[s].frame_size
            /\ setup[s].num_packets <= 32

(***************************************************************************)
(* Properties of the data the locks guard                                  *)
(***************************************************************************)
\* The added devices whose filter or delay slots thread t is using.
Accessed(t) ==
    FilterAccess(threads[t].op, threads[t].arg, threads[t].n, threads[t].pos) \cap Added

C22_ExposureInfoUnderTrackerLock ==
    \A t \in LockThreads :
       ExposureInfoAccess(threads[t].op, threads[t].arg, threads[t].n, threads[t].pos)
          => locks.tracker_lock = t

(***************************************************************************)
(* Properties of the matching                                              *)
(***************************************************************************)
\* The slots of device d the step changed or made a filter call for.
ActedOn(d) ==
    { j \in SlotIds :
        \/ Slot(d, j)' # Slot(d, j)
        \/ \E k \in DOMAIN last'.calls :
              last'.calls[k].dev = d /\ last'.calls[k].slot = j }

\* C23: a claim, a release, a pose update and a latest-pose query act on
\* slot i of a device only when the device's entry of the exposure info
\* they carry has fusion_slot = i and slot i is valid with the entry's
\* device_time_ns; without a match no slot changes and no filter call is
\* made, and the claim and the query leave fusion_slot = -1 in the entry.
C23_ActsOnMatchingSlotOnly ==
    [][ \A f \in SpecFrames, d \in DeviceIds :
          LET dev_info == frames[f].devices[d]
              entry == d < n_devices /\ d < frames[f].n_devices
              m == MatchedSlots(d, dev_info)
          IN  /\ ( /\ frames[f] # frames'[f] \/ devices # devices' \/ last # last'
                   /\ \/ rift_tracker_frame_start(f)
                      \/ rift_tracked_device_frame_release(d, f)
                      \/ \E score \in ScoreInputs :
                            rift_tracked_device_model_pose_update(d, f, score) )
                 => ActedOn(d) \subseteq (IF entry THEN m ELSE {})
              /\ (rift_tracker_frame_start(f) /\ entry /\ m = {})
                 => frames'[f].devices[d].fusion_slot = -1
              /\ rift_tracked_device_get_latest_exposure_info_pose(d, f)
                 => /\ ActedOn(d) \subseteq m
                    /\ m = {} => /\ frames'[f].devices[d].fusion_slot = -1
                                 /\ last'.out.ret = FALSE ]_vars

\* A query for device 0 has found no match: the device has a valid slot, but
\* for another device time than the copy's entry.
C23_Witness ==
    /\ last.out = Returned("get_latest_exposure_info_pose", 0, FALSE)
    /\ frames[1].devices[0].fusion_slot = -1
    /\ \E i \in SlotIds : /\ Slot(0, i).valid
                          /\ Slot(0, i).device_time_ns # frames[1].devices[0].device_time_ns
    /\ \A i \in SlotIds : Slot(0, i).valid
          => Slot(0, i).device_time_ns # frames[1].devices[0].device_time_ns
====
